---- MODULE Spec2Model ----
(***************************************************************************)
(* The mirroring engine of cmd/private-org-sync: gitSyncer.mirror drives   *)
(* a git executor through destination probe, repository setup, source tip  *)
(* resolution, fetch escalation, push and merge reconciliation.            *)
(*                                                                         *)
(* The executor is the mockGit of main_test.go generalised to every        *)
(* script: each call returns an exit status and an output, never a         *)
(* transport error (mockGit.exec always returns a nil error).  One action  *)
(* is one executor call together with the decision mirror takes on its     *)
(* outcome.  The call sequences TestMirror expects are behaviours of this  *)
(* model.                                                                  *)
(***************************************************************************)
EXTENDS Integers, Sequences, FiniteSets, TLC

VARIABLES
    confirm,              \* gitSyncer.confirm
    failOnNonexistentDst, \* gitSyncer.failOnNonexistentDst
    src,                  \* the source repository: heads it lists
    dst,                  \* the destination repository: existence and heads
    remotes,              \* remotes configured in the working directory
    pc,                   \* position of mirror
    result,               \* "running", "nil" (no error) or "error"
    calls,                \* executor calls of this invocation, with outcomes
    dstHeads,             \* heads parsed from the destination ls-remote
    srcCommitHash,        \* source tip resolved by ls-remote
    attempts,             \* source ls-remote attempts made
    fetchMode,            \* "depth", "full" or "unshallow"
    depth,                \* depth of the current depth-limited fetch
    fetchHead,            \* FETCH_HEAD of the working directory
    head,                 \* HEAD of the working directory
    dstAtStart,           \* destination heads when the invocation started
    runs,                 \* invocations started on this working directory
    options,              \* options: targetOrg, org (--only-org), flattenOrgs
    source,               \* a source location
    other,                \* a second source location
    destination,          \* destination computed for source
    otherDestination,     \* destination computed for other
    second,               \* the package-level retry interval
    caller,               \* the test or caller that runs the invocation
    slept,                \* intervals waited between source ls-remote attempts
    peer,                 \* a concurrent invocation for another repository
    args,                 \* arguments of the function being evaluated
    ret                   \* what the function returned

vars == <<confirm, failOnNonexistentDst, src, dst, remotes, pc, result, calls,
          dstHeads, srcCommitHash, attempts, fetchMode, depth, fetchHead,
          head, dstAtStart, runs,
          options, source, other, destination, otherDestination,
          second, caller, slept, peer, args, ret>>

\* The variables of the destination naming, which mirror leaves alone.
namingVars == <<options, source, other, destination, otherDestination>>

\* The variables of mirror, which the destination naming leaves alone.
mirrorVars == <<confirm, failOnNonexistentDst, src, dst, remotes, pc, result,
                calls, dstHeads, srcCommitHash, attempts, fetchMode, depth,
                fetchHead, head, dstAtStart, runs, slept>>

\* What lies around an invocation and mirror never writes: the naming, the
\* package-level interval, the caller and the concurrent invocation.
aroundVars == <<namingVars, second, caller, peer, args, ret>>

\* The variables of the evaluation of one function.
evalVars == <<args, ret>>

-----------------------------------------------------------------------------
(* Bounds and program constants *)

MaxRuns == 2

\* The longest list of credentials handed to the functions of csi_utils.go.
MaxCreds == 3

\* The most tests of a configuration.
MaxTests == 2

startDepth == 2
maxDepth == 64
retries == 5

-----------------------------------------------------------------------------
(* Values *)

Branch == "branch"
Another == "another-branch"
SourceSha == "source-sha"
DestSha == "dest-sha"
AnotherSha == "another-sha"
MergeSha == "merge-sha"
RemoteName == "org-repo"
NoHash == ""

\* The retry interval the package declares, and the one TestMirror sets.
DefaultSecond == "time.Second"
TestSecond == "time.Millisecond"

\* No function is being evaluated.
NoArgs == [fn |-> "none"]
NoRet == [fn |-> "none"]

\* The concurrent invocation before it starts.
NoPeer == [pc |-> "idle", dir |-> "", remotes |-> {}, fetchHead |-> NoHash,
           dstTip |-> NoHash, sawPc |-> ""]

\* A set of heads is a set of <<branch, sha>> pairs, one per branch.
HeadSets(tips) ==
    { t \cup a : t \in {{}} \cup {{<<Branch, s>>} : s \in tips},
                 a \in {{}, {<<Another, AnotherSha>>}} }

\* getRemoteBranchHeads: the map from branch name to sha parsed from
\* ls-remote output lines "<sha> refs/heads/<branch>"; a missing key reads
\* as the empty string.
HashOf(heads, b) ==
    IF \E h \in heads : h[1] = b
      THEN (CHOOSE h \in heads : h[1] = b)[2]
      ELSE NoHash

\* Mutant of HasBranch: any listed ref counts as the requested branch.
HasBranchAnyRef(heads, b) == heads # {}

\* The "ok" of the lookup of the requested branch among the parsed heads.
HasBranch(heads, b) == \E h \in heads : h[1] = b

SetTip(heads, b, sha) == {h \in heads : h[1] # b} \cup {<<b, sha>>}

Call(cmd, mode, n, dry, exit, out) ==
    [cmd |-> cmd, mode |-> mode, n |-> n, dry |-> dry, exit |-> exit, out |-> out]

Exits == {0, 1}

-----------------------------------------------------------------------------
(* Decisions of mirror *)

\* Mutants of DstProbeFailure: the flag is ignored, either way.
DstProbeFailureAlwaysError == "error"

DstProbeFailureNeverError == "nil"

\* Destination probe failed: an error only when failOnNonexistentDst is set.
DstProbeFailure == IF failOnNonexistentDst THEN "error" ELSE "nil"

\* Mutants of DryRun: the flag is never, or always, passed.
DryRunNever == FALSE

DryRunAlways == TRUE

\* Mutant of DryRun: the flag is inverted.
DryRunWhenConfirm == confirm

\* Pushes carry --dry-run unless confirm is set.
DryRun == ~confirm

\* Mutants of InSync: the source hash is compared with the empty hash, or
\* only tested for presence.
InSyncWithEmpty(srcHash, dstHash) == srcHash = NoHash

InSyncWhenResolved(srcHash, dstHash) == srcHash # NoHash

\* Branches are already in sync.
InSyncNever(srcHash, dstHash) == FALSE

InSync(srcHash, dstHash) == srcHash = dstHash

\* Mutant of RetryLsRemote: off by one, a sixth attempt is made.
RetryLsRemoteOnceMore(done) == done < retries + 1

\* Another source ls-remote attempt follows a failed one.
RetryLsRemote(done) == done < retries

\* Mutant of InitialFetchMode: the fetch is unbounded whenever the
\* destination does not list the requested branch.
InitialFetchModeBranchAbsent(heads) ==
    IF \E h \in heads : h[1] = Branch THEN "depth" ELSE "full"

\* The first fetch is unbounded when the destination lists no heads.
InitialFetchMode(heads) == IF heads = {} THEN "full" ELSE "depth"

\* Mutants of TooShallow: every rejected push, or also a non-fast-forward
\* rejection, is taken as too shallow.
TooShallowAnyRejection(out) == TRUE

TooShallowOrNonFastForward(out) == out \in {"remote contains work", "non-fast-forward"}

\* The push rejection that a deeper fetch may cure.
TooShallow(out) == out = "remote contains work"

\* Mutant of NextFetchMode: one more depth-limited fetch before unshallow.
NextFetchModeOneMoreDepth(d) == IF d < 2 * maxDepth THEN "depth" ELSE "unshallow"

\* Escalation: double the depth up to maxDepth, then unshallow.
NextFetchMode(d) == IF d < maxDepth THEN "depth" ELSE "unshallow"

\* Mutant of NextDepth: the depth grows by startDepth instead of doubling.
NextDepthLinear(d) == IF d < maxDepth THEN d + startDepth ELSE d

NextDepth(d) == IF d < maxDepth THEN 2 * d ELSE d

\* gitSyncer.gitName, gitSyncer.gitEmail and the reconciliation message.
gitName == "openshift-bot"

gitEmail == "openshift-bot@redhat.com"

MergeMessage == "DPTP reconciliation from upstream"

\* The branch of the source remote that is merged: <remote>/<branch>.
MergeRef == "org-repo/branch"

\* Mutant of Committer: the merge runs without the -c identity options.
CommitterUnset == [name |-> "", email |-> ""]

\* The identity passed to the merge as -c user.name / -c user.email.
Committer == [name |-> gitName, email |-> gitEmail]

\* The merge call: a call that also carries identity and message.
MergeCall(exit) ==
    [cmd |-> "merge", mode |-> MergeRef, n |-> 0, dry |-> FALSE, exit |-> exit,
     out |-> "", name |-> Committer.name, email |-> Committer.email,
     message |-> MergeMessage]

\* Mutant of ShallowConfirmed: the fetch is deepened whatever the query says.
ShallowAssumed(out) == TRUE

\* rev-parse --is-shallow-repository says "true": the clone is shallow and
\* a deeper fetch may help.
ShallowConfirmed(out) == out = "true"

\* Mutant of AfterNotShallow: a clone that is not shallow ends the invocation.
NotShallowIsFinal == "done"

\* The clone is not shallow: depth is not what the push lacks, and the
\* histories are merged.
AfterNotShallow == "mergeFetch"

\* Mutant of RetryReconcile: a non-fast-forward rejection of the merge push
\* starts the reconciliation again.
RetryReconcileOnNonFastForward(out) == out = "non-fast-forward"

\* The push of the merge is the final attempt.
RetryReconcile(out) == FALSE

\* Mutant of RemoteAddFailed: a failed remote add is not noticed.
RemoteAddFailureIgnored(exit) == FALSE

\* remote add failed: mirror returns the error.
RemoteAddFailed(exit) == exit # 0

\* Mutant of FetchFailed: a failed source fetch is not noticed.
FetchFailureIgnored(exit) == FALSE

\* The source fetch failed: mirror returns the error.
FetchFailed(exit) == exit # 0

\* Mutant of AfterRemoteProbe: the remote is added whatever the probe says.
AfterRemoteProbeAlwaysAdd(exit) == "addRemote"

\* The remote is added only when remote get-url exits nonzero.
AfterRemoteProbe(exit) == IF exit # 0 THEN "addRemote" ELSE "lsSrc"

\* Mutant of AfterMergeFailure: the merge's exit status is ignored.
MergeFailureIgnored == "mergePush"

\* A failed merge is aborted before mirror returns.
AfterMergeFailure == "mergeAbort"

-----------------------------------------------------------------------------
(* Initial state *)

Init ==
    /\ confirm \in BOOLEAN
    /\ failOnNonexistentDst \in BOOLEAN
    /\ src \in HeadSets({SourceSha})
    /\ dst \in [exists : {TRUE}, heads : HeadSets({SourceSha, DestSha})]
               \cup {[exists |-> FALSE, heads |-> {}]}
    /\ remotes \in SUBSET {RemoteName}
    /\ pc = "probeDst"
    /\ result = "running"
    /\ calls = <<>>
    /\ dstHeads = {}
    /\ srcCommitHash = NoHash
    /\ attempts = 0
    /\ fetchMode = "depth"
    /\ depth = startDepth
    /\ fetchHead = NoHash
    /\ head = NoHash
    /\ dstAtStart = dst.heads
    /\ runs = 1
    /\ options = [targetOrg |-> "dest", org |-> "", flattenOrgs |-> {}]
    /\ source = [org |-> "org", repo |-> "repo", branch |-> Branch]
    /\ other = source
    /\ destination = [org |-> "dest", repo |-> "repo", branch |-> Branch]
    /\ otherDestination = destination
    /\ second = TestSecond
    /\ caller = "TestMirror"
    /\ slept = {}
    /\ peer = NoPeer
    /\ args = NoArgs
    /\ ret = NoRet

Finish(r) == /\ pc' = "done"
             /\ result' = r

Goto(p) == /\ pc' = p
           /\ result' = "running"

-----------------------------------------------------------------------------
(* Steps of mirror *)

\* ls-remote --heads <destination url>
ProbeDst ==
    /\ pc = "probeDst"
    /\ \E exit \in (IF dst.exists THEN Exits ELSE {1}) :
         /\ calls' = Append(calls, Call("ls-remote-dst", "", 0, FALSE, exit,
                                   IF exit = 0 THEN HashOf(dst.heads, Branch) ELSE NoHash))
         /\ IF exit # 0
              THEN /\ Finish(DstProbeFailure)
                   /\ UNCHANGED dstHeads
              ELSE /\ Goto("init")
                   /\ dstHeads' = dst.heads
    /\ UNCHANGED <<confirm, failOnNonexistentDst, src, dst, remotes,
                   srcCommitHash, attempts, fetchMode, depth, fetchHead, head,
                   dstAtStart, runs>>
    /\ UNCHANGED <<aroundVars, slept>>

\* init
InitRepo ==
    /\ pc = "init"
    /\ \E exit \in Exits :
         /\ calls' = Append(calls, Call("init", "", 0, FALSE, exit, ""))
         /\ IF exit # 0 THEN Finish("error") ELSE Goto("getUrl")
    /\ UNCHANGED <<confirm, failOnNonexistentDst, src, dst, remotes, dstHeads,
                   srcCommitHash, attempts, fetchMode, depth, fetchHead, head,
                   dstAtStart, runs>>
    /\ UNCHANGED <<aroundVars, slept>>

\* remote get-url <remote>
RemoteGetUrl ==
    /\ pc = "getUrl"
    /\ LET exit == IF RemoteName \in remotes THEN 0 ELSE 1 IN
         /\ calls' = Append(calls, Call("remote-get-url", "", 0, FALSE, exit, ""))
         /\ Goto(AfterRemoteProbe(exit))
    /\ UNCHANGED <<confirm, failOnNonexistentDst, src, dst, remotes, dstHeads,
                   srcCommitHash, attempts, fetchMode, depth, fetchHead, head,
                   dstAtStart, runs>>
    /\ UNCHANGED <<aroundVars, slept>>

\* remote add <remote> <source url>
RemoteAdd ==
    /\ pc = "addRemote"
    /\ \E exit \in Exits :
         /\ calls' = Append(calls, Call("remote-add", "", 0, FALSE, exit, ""))
         /\ IF RemoteAddFailed(exit)
              THEN /\ Finish("error")
                   /\ UNCHANGED remotes
              ELSE /\ Goto("lsSrc")
                   /\ remotes' = IF exit = 0 THEN remotes \cup {RemoteName} ELSE remotes
    /\ UNCHANGED <<confirm, failOnNonexistentDst, src, dst, dstHeads,
                   srcCommitHash, attempts, fetchMode, depth, fetchHead, head,
                   dstAtStart, runs>>
    /\ UNCHANGED <<aroundVars, slept>>

\* ls-remote --heads <remote>, retried on a nonzero exit
LsRemoteSrc ==
    /\ pc = "lsSrc"
    /\ attempts' = attempts + 1
    /\ \E exit \in Exits :
         /\ calls' = Append(calls, Call("ls-remote-src", "", 0, FALSE, exit,
                                   IF exit = 0 THEN HashOf(src, Branch) ELSE NoHash))
         /\ IF exit # 0
              THEN /\ IF RetryLsRemote(attempts')
                        THEN /\ Goto("lsSrc")
                             /\ slept' = slept \cup {second}
                        ELSE /\ Finish("error")
                             /\ UNCHANGED slept
                   /\ UNCHANGED <<srcCommitHash, fetchMode, depth>>
              ELSE IF ~HasBranch(src, Branch)
                THEN /\ Finish("error")
                     /\ UNCHANGED <<srcCommitHash, fetchMode, depth, slept>>
                ELSE /\ srcCommitHash' = HashOf(src, Branch)
                     /\ UNCHANGED slept
                     /\ IF InSync(srcCommitHash', HashOf(dstHeads, Branch))
                          THEN /\ Finish("nil")
                               /\ UNCHANGED <<fetchMode, depth>>
                          ELSE /\ Goto("fetch")
                               /\ fetchMode' = InitialFetchMode(dstHeads)
                               /\ depth' = startDepth
    /\ UNCHANGED <<confirm, failOnNonexistentDst, src, dst, remotes, dstHeads,
                   fetchHead, head, dstAtStart, runs>>
    /\ UNCHANGED aroundVars

\* fetch --tags <remote> <branch> [--depth=N | --unshallow]
Fetch ==
    /\ pc = "fetch"
    /\ \E exit \in Exits :
         /\ calls' = Append(calls, Call("fetch", fetchMode,
                                   IF fetchMode = "depth" THEN depth ELSE 0,
                                   FALSE, exit, ""))
         /\ IF FetchFailed(exit)
              THEN /\ Finish("error")
                   /\ UNCHANGED fetchHead
              ELSE /\ Goto("push")
                   /\ fetchHead' = IF exit = 0 THEN HashOf(src, Branch) ELSE fetchHead
    /\ UNCHANGED <<confirm, failOnNonexistentDst, src, dst, remotes, dstHeads,
                   srcCommitHash, attempts, fetchMode, depth, head, dstAtStart,
                   runs>>
    /\ UNCHANGED <<aroundVars, slept>>

PushOutputs == {"remote contains work", "non-fast-forward", ""}

\* push --tags [--dry-run] <destination url> FETCH_HEAD:refs/heads/<branch>
Push ==
    /\ pc = "push"
    /\ \E exit \in Exits, out \in PushOutputs :
         /\ exit = 0 => out = ""
         /\ calls' = Append(calls, Call("push", "FETCH_HEAD", 0, DryRun, exit, out))
         /\ IF exit = 0
              THEN /\ Finish("nil")
                   /\ dst' = IF DryRun THEN dst
                             ELSE [dst EXCEPT !.heads = SetTip(@, Branch, fetchHead)]
              ELSE /\ UNCHANGED dst
                   /\ IF TooShallow(out)
                        THEN IF fetchMode = "depth"
                               THEN Goto("isShallow")
                               ELSE Goto("mergeFetch")
                        ELSE Finish("error")
    /\ UNCHANGED <<confirm, failOnNonexistentDst, src, remotes, dstHeads,
                   srcCommitHash, attempts, fetchMode, depth, fetchHead, head,
                   dstAtStart, runs>>
    /\ UNCHANGED <<aroundVars, slept>>

\* rev-parse --is-shallow-repository
IsShallow ==
    /\ pc = "isShallow"
    /\ \E exit \in Exits, out \in {"true", "false"} :
         /\ calls' = Append(calls, Call("rev-parse", "", 0, FALSE, exit, out))
         /\ IF exit # 0
              THEN /\ Finish("error")
                   /\ UNCHANGED <<fetchMode, depth>>
              ELSE IF ShallowConfirmed(out)
                THEN /\ Goto("fetch")
                     /\ fetchMode' = NextFetchMode(depth)
                     /\ depth' = NextDepth(depth)
                ELSE /\ Goto(AfterNotShallow)
                     /\ UNCHANGED <<fetchMode, depth>>
    /\ UNCHANGED <<confirm, failOnNonexistentDst, src, dst, remotes, dstHeads,
                   srcCommitHash, attempts, fetchHead, head, dstAtStart, runs>>
    /\ UNCHANGED <<aroundVars, slept>>

\* fetch <destination url> <branch>
MergeFetch ==
    /\ pc = "mergeFetch"
    /\ \E exit \in Exits :
         /\ calls' = Append(calls, Call("fetch-dst", "", 0, FALSE, exit, ""))
         /\ IF exit # 0
              THEN /\ Finish("error")
                   /\ UNCHANGED fetchHead
              ELSE /\ Goto("checkout")
                   /\ fetchHead' = HashOf(dst.heads, Branch)
    /\ UNCHANGED <<confirm, failOnNonexistentDst, src, dst, remotes, dstHeads,
                   srcCommitHash, attempts, fetchMode, depth, head, dstAtStart,
                   runs>>
    /\ UNCHANGED <<aroundVars, slept>>

\* checkout FETCH_HEAD
Checkout ==
    /\ pc = "checkout"
    /\ \E exit \in Exits :
         /\ calls' = Append(calls, Call("checkout", "FETCH_HEAD", 0, FALSE, exit, ""))
         /\ IF exit # 0
              THEN /\ Finish("error")
                   /\ UNCHANGED head
              ELSE /\ Goto("merge")
                   /\ head' = fetchHead
    /\ UNCHANGED <<confirm, failOnNonexistentDst, src, dst, remotes, dstHeads,
                   srcCommitHash, attempts, fetchMode, depth, fetchHead,
                   dstAtStart, runs>>
    /\ UNCHANGED <<aroundVars, slept>>

\* -c user.name=.. -c user.email=.. merge <remote>/<branch> -m <message>
Merge ==
    /\ pc = "merge"
    /\ \E exit \in Exits :
         /\ calls' = Append(calls, MergeCall(exit))
         /\ IF exit # 0
              THEN /\ Goto(AfterMergeFailure)
                   /\ UNCHANGED head
              ELSE /\ Goto("mergePush")
                   /\ head' = MergeSha
    /\ UNCHANGED <<confirm, failOnNonexistentDst, src, dst, remotes, dstHeads,
                   srcCommitHash, attempts, fetchMode, depth, fetchHead,
                   dstAtStart, runs>>
    /\ UNCHANGED <<aroundVars, slept>>

\* merge --abort
MergeAbort ==
    /\ pc = "mergeAbort"
    /\ \E exit \in Exits :
         /\ calls' = Append(calls, Call("merge-abort", "", 0, FALSE, exit, ""))
         /\ Finish("error")
    /\ UNCHANGED <<confirm, failOnNonexistentDst, src, dst, remotes, dstHeads,
                   srcCommitHash, attempts, fetchMode, depth, fetchHead, head,
                   dstAtStart, runs>>
    /\ UNCHANGED <<aroundVars, slept>>

\* push --tags [--dry-run] <destination url> HEAD:<branch>
MergePush ==
    /\ pc = "mergePush"
    /\ \E exit \in Exits, out \in PushOutputs :
         /\ exit = 0 => out = ""
         /\ calls' = Append(calls, Call("push", "HEAD", 0, DryRun, exit, out))
         /\ IF exit = 0
              THEN /\ Finish("nil")
                   /\ dst' = IF DryRun THEN dst
                             ELSE [dst EXCEPT !.heads = SetTip(@, Branch, head)]
              ELSE /\ IF RetryReconcile(out) THEN Goto("mergeFetch") ELSE Finish("error")
                   /\ UNCHANGED dst
    /\ UNCHANGED <<confirm, failOnNonexistentDst, src, remotes, dstHeads,
                   srcCommitHash, attempts, fetchMode, depth, fetchHead, head,
                   dstAtStart, runs>>
    /\ UNCHANGED <<aroundVars, slept>>

\* The orchestrator invokes mirror again on the same working directory.
StartMirror ==
    /\ pc = "done"
    /\ runs < MaxRuns
    /\ runs' = runs + 1
    /\ pc' = "probeDst"
    /\ result' = "running"
    /\ calls' = <<>>
    /\ dstHeads' = {}
    /\ srcCommitHash' = NoHash
    /\ attempts' = 0
    /\ fetchMode' = "depth"
    /\ depth' = startDepth
    /\ dstAtStart' = dst.heads
    /\ slept' = {}
    /\ UNCHANGED <<confirm, failOnNonexistentDst, src, dst, remotes, fetchHead, head>>
    /\ UNCHANGED aroundVars

Next ==
    \/ ProbeDst
    \/ InitRepo
    \/ RemoteGetUrl
    \/ RemoteAdd
    \/ LsRemoteSrc
    \/ Fetch
    \/ Push
    \/ IsShallow
    \/ MergeFetch
    \/ Checkout
    \/ Merge
    \/ MergeAbort
    \/ MergePush
    \/ StartMirror

Spec == Init /\ [][Next]_vars

TypeOK ==
    /\ pc \in {"probeDst", "init", "getUrl", "addRemote", "lsSrc", "fetch", "push",
               "isShallow", "mergeFetch", "checkout", "merge", "mergeAbort",
               "mergePush", "done"}
    /\ result \in {"running", "nil", "error"}
    /\ (pc = "done") <=> (result # "running")
    /\ fetchMode \in {"depth", "full", "unshallow"}
    /\ depth \in startDepth..maxDepth
    /\ attempts \in 0..retries
    /\ second \in {DefaultSecond, TestSecond}
    /\ slept \subseteq {DefaultSecond, TestSecond}

-----------------------------------------------------------------------------
(* Destination naming: the logic of main() that TestDestinationNaming       *)
(* repeats.  Strings are TLC strings and "<org>-<repo>" is built by         *)
(* concatenation, so that two different pairs can give the same name.       *)

\* The organizations flattened by default: those TestDestinationNaming
\* expects to keep their names with no --only-org and no --flatten-org.
defaultFlattenOrgs == {"openshift", "openshift-eng", "redhat-cne", "ViaQ"}

\* The zero value of a location.
NoLocation == [org |-> "", repo |-> "", branch |-> ""]

\* Mutant of FlattenedOrgs: --only-org is not added to the set.
FlattenedOrgsWithoutOnlyOrg(o) == defaultFlattenOrgs \cup o.flattenOrgs

\* flattenedOrgs: the defaults, then --flatten-org, then --only-org if given.
FlattenedOrgs(o) ==
    LET withFlatten == defaultFlattenOrgs \cup o.flattenOrgs
    IN  IF o.org # "" THEN withFlatten \cup {o.org} ELSE withFlatten

\* Mutant of DestinationOf: the organization is left out of the new name.
DestinationOfWithoutOrg(o, s) ==
    LET d == [s EXCEPT !.org = o.targetOrg]
    IN  IF s.org \notin FlattenedOrgs(o)
          THEN [d EXCEPT !.repo = "-" \o s.repo]
          ELSE d

\* destination := source with the target organization, renamed
\* "<org>-<repo>" unless the source organization is flattened.
DestinationOf(o, s) ==
    LET d == [s EXCEPT !.org = o.targetOrg]
    IN  IF s.org \notin FlattenedOrgs(o)
          THEN [d EXCEPT !.repo = s.org \o "-" \o s.repo]
          ELSE d

SourceOrgs == {"openshift", "openshift-eng", "migtools", "custom-org", "ViaQ"}

SourceRepos == {"api", "eng-api", "must-gather"}

OnlyOrgs == {"", "openshift", "migtools"}

FlattenOrgOptions == SUBSET {"openshift-eng", "migtools", "another-org"}

Locations == [org : SourceOrgs, repo : SourceRepos, branch : {"main"}]

\* mirror has not been invoked: its variables hold what a new gitSyncer and
\* an untouched working directory hold.
MirrorIdle ==
    /\ confirm = FALSE
    /\ failOnNonexistentDst = FALSE
    /\ src = {}
    /\ dst = [exists |-> FALSE, heads |-> {}]
    /\ remotes = {}
    /\ pc = "probeDst"
    /\ result = "running"
    /\ calls = <<>>
    /\ dstHeads = {}
    /\ srcCommitHash = NoHash
    /\ attempts = 0
    /\ fetchMode = "depth"
    /\ depth = startDepth
    /\ fetchHead = NoHash
    /\ head = NoHash
    /\ dstAtStart = {}
    /\ runs = 1
    /\ slept = {}

InitNaming ==
    /\ MirrorIdle
    /\ options \in [targetOrg : {"openshift-priv"}, org : OnlyOrgs,
                    flattenOrgs : FlattenOrgOptions]
    /\ source \in Locations
    /\ other \in Locations
    /\ destination = NoLocation
    /\ otherDestination = NoLocation
    /\ second = DefaultSecond
    /\ caller = "TestDestinationNaming"
    /\ peer = NoPeer
    /\ args = NoArgs
    /\ ret = NoRet

\* The destinations of the two sources are computed.
DestinationNaming ==
    /\ destination = NoLocation
    /\ destination' = DestinationOf(options, source)
    /\ otherDestination' = DestinationOf(options, other)
    /\ UNCHANGED <<options, source, other, second, caller, peer, evalVars>>
    /\ UNCHANGED mirrorVars

NextNaming == DestinationNaming

SpecNaming == InitNaming /\ [][NextNaming]_vars

Named == destination # NoLocation

\* C16: the destination keeps branch and takes the target organization;
\* its repository name is the source's when the source organization is a
\* default flattened organization, a --flatten-org or the --only-org given,
\* and "<org>-<repo>" otherwise; the cases of TestDestinationNaming come
\* out as the test expects.
C16_NamingPolicy ==
    Named =>
        /\ destination.org = options.targetOrg
        /\ destination.branch = source.branch
        /\ (\/ source.org \in defaultFlattenOrgs
            \/ source.org \in options.flattenOrgs
            \/ options.org # "" /\ source.org = options.org)
              => destination.repo = source.repo
        /\ ~(\/ source.org \in defaultFlattenOrgs
             \/ source.org \in options.flattenOrgs
             \/ options.org # "" /\ source.org = options.org)
              => destination.repo = source.org \o "-" \o source.repo
        /\ (source.org = "migtools" /\ source.repo = "must-gather"
              /\ options.org \in {"", "openshift"} /\ options.flattenOrgs = {})
              => destination.repo = "migtools-must-gather"
        /\ (source.org = "openshift" /\ source.repo = "api" /\ options.org = "openshift")
              => destination.repo = "api"
        /\ (source.org = "custom-org" /\ source.repo = "api"
              /\ options.org = "openshift" /\ options.flattenOrgs = {"another-org"})
              => destination.repo = "custom-org-api"
        /\ (source.org = "ViaQ" /\ options.org = "" /\ options.flattenOrgs = {})
              => destination.repo = source.repo

C16_Witness ==
    /\ Named
    /\ source.org = "migtools"
    /\ options.org = "migtools"
    /\ options.flattenOrgs = {}
    /\ destination.repo = source.repo
    /\ other.org = "custom-org"
    /\ otherDestination.repo = "custom-org-must-gather"

SameRepoOtherOrg == Named /\ source.org # other.org /\ source.repo = other.repo

\* C17 as stated: two sources with the same repository name in different
\* organizations never get the same destination repository name.
C17_NoCollisionOriginal ==
    SameRepoOtherOrg => destination.repo # otherDestination.repo

\* C17 amended: two sources with the same repository name in different
\* organizations get the same destination repository name exactly when
\* both organizations are flattened; when at most one is, they differ.
C17_CollisionOnlyWhenBothFlattened ==
    SameRepoOtherOrg
        => (destination.repo = otherDestination.repo
              <=> /\ destination.repo = source.repo
                  /\ otherDestination.repo = other.repo)

C17_Witness ==
    /\ SameRepoOtherOrg
    /\ source.org = "migtools"
    /\ other.org = "custom-org"
    /\ destination.repo = "migtools-api"
    /\ otherDestination.repo = "custom-org-api"

-----------------------------------------------------------------------------
(* The retry interval: the package-level variable second, which TestMirror  *)
(* sets before its first invocation, and the invocations of later callers.  *)

\* A step of mirror.
MirrorStep ==
    \/ ProbeDst
    \/ InitRepo
    \/ RemoteGetUrl
    \/ RemoteAdd
    \/ LsRemoteSrc
    \/ Fetch
    \/ Push
    \/ IsShallow
    \/ MergeFetch
    \/ Checkout
    \/ Merge
    \/ MergeAbort
    \/ MergePush

\* One source and one existing destination behind, in a fresh directory.
MirrorReady ==
    /\ confirm = TRUE
    /\ failOnNonexistentDst = FALSE
    /\ src = {<<Branch, SourceSha>>}
    /\ dst \in [exists : {TRUE}, heads : HeadSets({DestSha})]
    /\ remotes = {}
    /\ pc = "probeDst"
    /\ result = "running"
    /\ calls = <<>>
    /\ dstHeads = {}
    /\ srcCommitHash = NoHash
    /\ attempts = 0
    /\ fetchMode = "depth"
    /\ depth = startDepth
    /\ fetchHead = NoHash
    /\ head = NoHash
    /\ dstAtStart = dst.heads
    /\ runs = 1
    /\ slept = {}
    /\ options = [targetOrg |-> "dest", org |-> "", flattenOrgs |-> {}]
    /\ source = [org |-> "org", repo |-> "repo", branch |-> Branch]
    /\ other = source
    /\ destination = [org |-> "dest", repo |-> "repo", branch |-> Branch]
    /\ otherDestination = destination

\* Either TestMirror runs first and has set the interval, or another
\* caller does and finds the declared one.
InitInterval ==
    /\ MirrorReady
    /\ caller \in {"TestMirror", "other"}
    /\ second = IF caller = "TestMirror" THEN TestSecond ELSE DefaultSecond
    /\ peer = NoPeer
    /\ args = NoArgs
    /\ ret = NoRet

\* TestMirror begins once the other caller's invocation is over; its first
\* statement is second = time.Millisecond.
TestMirrorStarts ==
    /\ caller = "other"
    /\ pc = "done"
    /\ caller' = "TestMirror"
    /\ second' = TestSecond
    /\ UNCHANGED <<mirrorVars, namingVars, evalVars, peer>>

\* TestMirror is over; the next invocation is another caller's, who sets
\* no interval.
CallerReturns ==
    /\ caller = "TestMirror"
    /\ pc = "done"
    /\ caller' = "other"
    /\ UNCHANGED <<mirrorVars, namingVars, evalVars, second, peer>>

NextInterval == MirrorStep \/ StartMirror \/ TestMirrorStarts \/ CallerReturns

SpecInterval == InitInterval /\ [][NextInterval]_vars

\* C22: the interval an invocation waits between source ls-remote attempts
\* is its own caller's: an invocation of a caller that set no interval
\* waits the declared one, whatever TestMirror set before.
C22_IntervalIsPerInvocation ==
    (caller = "other" /\ pc # "done") => slept \subseteq {DefaultSecond}

-----------------------------------------------------------------------------
(* Two invocations at once: mirror as above, and a second invocation for    *)
(* another source and destination, reduced to the calls that write its      *)
(* working directory and its destination.                                   *)

\* The working directory of mirror.
RepoDir == "repo-dir"

\* Mutant of PeerRepoDir: the second invocation is given the same directory.
PeerRepoDirShared == RepoDir

\* The working directory of the second invocation, its own.
PeerRepoDir == "peer-repo-dir"

PeerRemoteName == "org-peer"
PeerSha == "peer-sha"

\* The variables of mirror that are not state of its working directory.
outsideDirVars == <<confirm, failOnNonexistentDst, src, dst, pc, result, calls,
                    dstHeads, srcCommitHash, attempts, fetchMode, depth, head,
                    dstAtStart, runs, slept>>

InitConcurrent ==
    /\ MirrorReady
    /\ second = TestSecond
    /\ caller = "TestMirror"
    /\ peer = [NoPeer EXCEPT !.dir = PeerRepoDir]
    /\ args = NoArgs
    /\ ret = NoRet

\* Both invocations are given the directory of mirror.
InitSharedDir ==
    /\ MirrorReady
    /\ second = TestSecond
    /\ caller = "TestMirror"
    /\ peer = [NoPeer EXCEPT !.dir = RepoDir]
    /\ args = NoArgs
    /\ ret = NoRet

\* remote add in the second invocation's directory
PeerRemoteAdd ==
    /\ peer.pc = "idle"
    /\ \E exit \in Exits :
         IF exit # 0
           THEN /\ peer' = [peer EXCEPT !.pc = "done"]
                /\ UNCHANGED remotes
           ELSE IF peer.dir = RepoDir
             THEN /\ remotes' = remotes \cup {PeerRemoteName}
                  /\ peer' = [peer EXCEPT !.pc = "fetch"]
             ELSE /\ peer' = [peer EXCEPT !.pc = "fetch",
                                          !.remotes = @ \cup {PeerRemoteName}]
                  /\ UNCHANGED remotes
    /\ UNCHANGED <<outsideDirVars, fetchHead, namingVars, evalVars, second, caller>>

\* fetch in the second invocation's directory; sawPc keeps where mirror
\* stood at that moment
PeerFetch ==
    /\ peer.pc = "fetch"
    /\ \E exit \in Exits :
         IF exit # 0
           THEN /\ peer' = [peer EXCEPT !.pc = "done"]
                /\ UNCHANGED fetchHead
           ELSE IF peer.dir = RepoDir
             THEN /\ fetchHead' = PeerSha
                  /\ peer' = [peer EXCEPT !.pc = "push", !.sawPc = pc]
             ELSE /\ peer' = [peer EXCEPT !.pc = "push", !.sawPc = pc,
                                          !.fetchHead = PeerSha]
                  /\ UNCHANGED fetchHead
    /\ UNCHANGED <<outsideDirVars, remotes, namingVars, evalVars, second, caller>>

\* push of FETCH_HEAD to the second invocation's destination
PeerPush ==
    /\ peer.pc = "push"
    /\ \E exit \in Exits :
         peer' = [peer EXCEPT !.pc = "done",
                              !.dstTip = IF exit # 0 THEN @
                                         ELSE IF peer.dir = RepoDir
                                                THEN fetchHead
                                                ELSE peer.fetchHead]
    /\ UNCHANGED <<mirrorVars, namingVars, evalVars, second, caller>>

PeerStep == PeerRemoteAdd \/ PeerFetch \/ PeerPush

NextConcurrent == MirrorStep \/ PeerStep

SpecConcurrent == InitConcurrent /\ [][NextConcurrent]_vars

SpecSharedDir == InitSharedDir /\ [][NextConcurrent]_vars

-----------------------------------------------------------------------------
(* The same invocation again, right after one that returned no error. *)

InitRepeat ==
    /\ MirrorReady
    /\ second = TestSecond
    /\ caller = "TestMirror"
    /\ peer = NoPeer
    /\ args = NoArgs
    /\ ret = NoRet

\* mirror is invoked again with the same source and destination once the
\* invocation before returned no error.
RepeatMirror ==
    /\ result = "nil"
    /\ StartMirror

NextRepeat == MirrorStep \/ RepeatMirror

SpecRepeat == InitRepeat /\ [][NextRepeat]_vars

-----------------------------------------------------------------------------
(* Reading the executor call sequence *)

Idx == 1..Len(calls)

LastCall == calls[Len(calls)]

IsSrcFetch(i) == calls[i].cmd = "fetch"

IsPush(i) == calls[i].cmd = "push"

\* The destination probe, always the first call, exited nonzero.
DstProbeFailed ==
    /\ Len(calls) >= 1
    /\ calls[1].cmd = "ls-remote-dst"
    /\ calls[1].exit # 0

\* Call i is a source ls-remote that listed the requested branch at the tip
\* the destination probe listed for it.
TipsEqualAt(i) ==
    /\ calls[i].cmd = "ls-remote-src"
    /\ calls[i].exit = 0
    /\ calls[i].out # NoHash
    /\ calls[1].cmd = "ls-remote-dst"
    /\ calls[1].exit = 0
    /\ calls[i].out = calls[1].out

NoFetchNoPush == \A j \in Idx : calls[j].cmd \notin {"fetch", "push", "fetch-dst"}

DstTip == HashOf(dst.heads, Branch)

-----------------------------------------------------------------------------
(* Claims *)

\* C1: when the source tip resolved by ls-remote equals the destination tip
\* seen by the destination probe, that ls-remote is the last executor call,
\* no fetch and no push is issued, and mirror returns no error.
C1_Convergence ==
    \A i \in Idx :
        TipsEqualAt(i) => /\ i = Len(calls)
                          /\ result = "nil"
                          /\ NoFetchNoPush

C1_Witness ==
    /\ Len(calls) >= 2
    /\ TipsEqualAt(Len(calls))
    /\ pc = "done"

\* C2: with confirm unset every push (of FETCH_HEAD at any depth, of HEAD
\* after a reconciliation merge) carries --dry-run, and the destination
\* heads stay as they were when the invocation started.
C2_DryRunSafety ==
    ~confirm => /\ \A i \in Idx : IsPush(i) => calls[i].dry
                /\ dst.heads = dstAtStart

C2_Witness ==
    /\ ~confirm
    /\ pc = "done"
    /\ result = "nil"
    /\ LastCall.cmd = "push"
    /\ LastCall.mode = "HEAD"
    /\ LastCall.dry
    /\ \E i \in Idx : IsPush(i) /\ calls[i].mode = "FETCH_HEAD" /\ calls[i].dry

\* C3 as stated: whenever mirror returns no error the destination branch's
\* tip is the source branch's tip or the merge commit.
C3_SuccessImpliesTipOriginal ==
    result = "nil" => /\ DstTip # NoHash
                      /\ DstTip \in {HashOf(src, Branch), MergeSha}

\* C3 amended: whenever mirror returns no error with confirm set and the
\* destination probe having exited zero, the destination branch's tip is
\* the source branch's tip or the merge commit.
C3_SuccessImpliesTip ==
    (result = "nil" /\ confirm /\ ~DstProbeFailed)
        => /\ DstTip # NoHash
           /\ DstTip \in {HashOf(src, Branch), MergeSha}

C3_Witness ==
    /\ result = "nil"
    /\ confirm
    /\ LastCall.cmd = "push"
    /\ LastCall.mode = "HEAD"
    /\ DstTip = MergeSha
    /\ HashOf(dstAtStart, Branch) = DestSha

\* C4: the source fetches of an invocation escalate 2, 4, 8, 16, 32, 64 and
\* then one unshallow fetch, each retry following a push rejected as too
\* shallow; nothing follows an unbounded fetch; a push that exits zero is
\* the last call and mirror returns no error.
C4_DepthEscalation ==
    /\ \A i \in Idx :
         (IsSrcFetch(i) /\ ~\E k \in 1..(i-1) : IsSrcFetch(k))
            => \/ calls[i].mode = "full"
               \/ calls[i].mode = "depth" /\ calls[i].n = 2
    /\ \A i, j \in Idx :
         (i < j /\ IsSrcFetch(i) /\ IsSrcFetch(j)
                /\ ~\E k \in (i+1)..(j-1) : IsSrcFetch(k))
            => /\ calls[i].mode = "depth"
               /\ calls[i].n \in {2, 4, 8, 16, 32, 64}
               /\ IF calls[i].n < 64
                    THEN calls[j].mode = "depth" /\ calls[j].n = 2 * calls[i].n
                    ELSE calls[j].mode = "unshallow"
               /\ IsPush(i + 1)
               /\ calls[i + 1].exit # 0
               /\ calls[i + 1].out = "remote contains work"
    /\ Cardinality({i \in Idx : IsSrcFetch(i) /\ calls[i].mode = "unshallow"}) <= 1
    /\ \A i \in Idx :
         (IsPush(i) /\ calls[i].exit = 0) => (i = Len(calls) /\ result = "nil")

C4_Witness ==
    /\ \E i \in Idx : IsSrcFetch(i) /\ calls[i].mode = "unshallow"
    /\ \E i \in Idx : IsSrcFetch(i) /\ calls[i].mode = "depth" /\ calls[i].n = 64
    /\ LastCall.cmd = "push"
    /\ LastCall.mode = "FETCH_HEAD"
    /\ LastCall.exit = 0
    /\ result = "nil"

\* C5: after a reconciliation merge that exits nonzero the next executor
\* call is merge --abort, nothing follows the abort (in particular no
\* push), and mirror returns an error.
C5_MergeCleanliness ==
    \A i \in Idx :
        (calls[i].cmd = "merge" /\ calls[i].exit # 0)
            => IF i = Len(calls)
                 THEN pc = "mergeAbort" /\ result = "running"
                 ELSE /\ Len(calls) = i + 1
                      /\ calls[i + 1].cmd = "merge-abort"
                      /\ result = "error"
                      /\ pc = "done"

C5_Witness ==
    /\ Len(calls) >= 2
    /\ LastCall.cmd = "merge-abort"
    /\ calls[Len(calls) - 1].cmd = "merge"
    /\ calls[Len(calls) - 1].exit # 0
    /\ result = "error"

LsSrcIdx == {i \in Idx : calls[i].cmd = "ls-remote-src"}

\* C6: the source ls-remote is repeated only after a failure and at most 5
\* times; a failure short of the fifth is followed by another attempt; the
\* fifth failure ends mirror with an error, no fetch and no push; a success
\* that lists the branch is the last attempt and brings no error.
C6_RetryBound ==
    /\ Cardinality(LsSrcIdx) <= 5
    /\ Cardinality(LsSrcIdx) = attempts
    /\ \A i, j \in LsSrcIdx : i < j => calls[i].exit # 0
    /\ \A i \in LsSrcIdx :
         (calls[i].exit # 0 /\ i = Len(calls))
            => IF Cardinality(LsSrcIdx) < 5
                 THEN pc = "lsSrc" /\ result = "running"
                 ELSE pc = "done" /\ result = "error" /\ NoFetchNoPush
    /\ \A i \in LsSrcIdx :
         (calls[i].exit # 0 /\ i < Len(calls)) => calls[i + 1].cmd = "ls-remote-src"
    /\ \A i \in LsSrcIdx :
         (calls[i].exit = 0 /\ calls[i].out # NoHash /\ i = Len(calls))
            => result # "error"

C6_Witness ==
    /\ Cardinality(LsSrcIdx) = 5
    /\ \A i \in LsSrcIdx : calls[i].exit # 0
    /\ result = "error"
    /\ LastCall.cmd = "ls-remote-src"

\* The four ways an invocation can end.
Converged == Len(calls) >= 2 /\ TipsEqualAt(Len(calls))

PushedOk == Len(calls) >= 1 /\ LastCall.cmd = "push" /\ LastCall.exit = 0

Failed == result = "error"

SkippedNoDst ==
    /\ DstProbeFailed
    /\ Len(calls) = 1
    /\ ~failOnNonexistentDst

ExactlyOne(S) == Cardinality({b \in S : b[2]}) = 1

\* C7 as stated: every invocation ends converged, or with a push that
\* exited zero as its last call, or with an error, exactly one of the three.
C7_NeverDropsOriginal ==
    pc = "done" => ExactlyOne({<<"a", Converged>>, <<"b", PushedOk>>, <<"c", Failed>>})

\* C7 amended: every invocation ends in exactly one of: converged; a push
\* that exited zero as its last call; an error; or, with
\* failOnNonexistentDst unset, a destination probe that exited nonzero as
\* its only call, upon which mirror returns no error.
C7_NeverDrops ==
    pc = "done" => ExactlyOne({<<"a", Converged>>, <<"b", PushedOk>>,
                               <<"c", Failed>>, <<"d", SkippedNoDst>>})

C7_Witness ==
    /\ pc = "done"
    /\ result = "nil"
    /\ SkippedNoDst
    /\ ~dst.exists

\* C8 as stated: when the destination probe exits nonzero and
\* failOnNonexistentDst is unset, mirror goes on to init and the later steps.
C8_ProceedsOriginal ==
    (DstProbeFailed /\ ~failOnNonexistentDst)
        => ~(pc = "done" /\ Len(calls) = 1)

\* C8 amended: when the destination probe exits nonzero and
\* failOnNonexistentDst is unset, mirror returns no error at once: the probe
\* is its only executor call and the destination is left as it was.
C8_SkipsWithoutError ==
    (DstProbeFailed /\ ~failOnNonexistentDst)
        => /\ pc = "done"
           /\ result = "nil"
           /\ Len(calls) = 1
           /\ dst.heads = dstAtStart

C8_Witness ==
    /\ DstProbeFailed
    /\ ~failOnNonexistentDst
    /\ pc = "done"
    /\ dst.exists

\* C9: when the destination probe exits nonzero and failOnNonexistentDst is
\* set, mirror returns an error and the probe is its only executor call.
C9_FailOnNonexistentDst ==
    (DstProbeFailed /\ failOnNonexistentDst)
        => /\ pc = "done"
           /\ result = "error"
           /\ Len(calls) = 1

C9_Witness ==
    /\ DstProbeFailed
    /\ failOnNonexistentDst
    /\ result = "error"

\* C10: a source ls-remote that exits zero without a ref for the requested
\* branch is the last executor call; mirror returns an error and has issued
\* no fetch and no push.
C10_BranchMissingUpstream ==
    \A i \in Idx :
        (calls[i].cmd = "ls-remote-src" /\ calls[i].exit = 0 /\ calls[i].out = NoHash)
            => /\ i = Len(calls)
               /\ pc = "done"
               /\ result = "error"
               /\ NoFetchNoPush

C10_Witness ==
    /\ src = {<<Another, AnotherSha>>}
    /\ Len(calls) >= 1
    /\ LastCall.cmd = "ls-remote-src"
    /\ LastCall.exit = 0
    /\ result = "error"

-----------------------------------------------------------------------------
(* Claims C11..C20 *)

\* C11 as stated: after a push rejected as non-fast-forward (without the
\* too-shallow signature) mirror does not return an error straight away but
\* goes on to fetch the destination branch for a reconciliation merge.
C11_NonFastForwardMergesOriginal ==
    \A i \in Idx :
        (IsPush(i) /\ calls[i].mode = "FETCH_HEAD" /\ calls[i].exit # 0
                   /\ calls[i].out = "non-fast-forward")
            => IF i = Len(calls)
                 THEN pc = "mergeFetch" /\ result = "running"
                 ELSE calls[i + 1].cmd = "fetch-dst"

\* C11 amended: a push rejected as non-fast-forward without the too-shallow
\* signature in its output is terminal: it is the last executor call and
\* mirror returns an error; no reconciliation is attempted.
C11_NonFastForwardIsTerminal ==
    \A i \in Idx :
        (IsPush(i) /\ calls[i].exit # 0 /\ calls[i].out = "non-fast-forward")
            => /\ i = Len(calls)
               /\ pc = "done"
               /\ result = "error"
               /\ calls[i].mode = "FETCH_HEAD"
                    => \A j \in Idx : calls[j].cmd \notin {"fetch-dst", "checkout", "merge"}

C11_Witness ==
    /\ Len(calls) >= 1
    /\ LastCall.cmd = "push"
    /\ LastCall.mode = "FETCH_HEAD"
    /\ LastCall.exit # 0
    /\ LastCall.out = "non-fast-forward"
    /\ calls[Len(calls) - 1].mode = "full"
    /\ result = "error"

\* C12: a push that exits nonzero with output matching no known rejection
\* signature is the last executor call and mirror returns an error.
C12_UnclassifiedPushIsFatal ==
    \A i \in Idx :
        (IsPush(i) /\ calls[i].exit # 0 /\ calls[i].out = "")
            => /\ i = Len(calls)
               /\ pc = "done"
               /\ result = "error"

C12_Witness ==
    /\ Len(calls) >= 1
    /\ LastCall.cmd = "push"
    /\ LastCall.mode = "FETCH_HEAD"
    /\ LastCall.exit # 0
    /\ LastCall.out = ""
    /\ calls[Len(calls) - 1].mode = "depth"
    /\ pc = "done"

Shape(c) == <<c.cmd, c.mode, c.n, c.dry, c.exit>>

CallShapes == [i \in Idx |-> Shape(calls[i])]

\* The calls of a cold-cache sync in which everything but the remote probe
\* exits zero, with the first fetch as given.
ColdCacheCalls(firstFetch) ==
    << <<"ls-remote-dst", "", 0, FALSE, 0>>,
       <<"init", "", 0, FALSE, 0>>,
       <<"remote-get-url", "", 0, FALSE, 1>>,
       <<"remote-add", "", 0, FALSE, 0>>,
       <<"ls-remote-src", "", 0, FALSE, 0>>,
       firstFetch,
       <<"push", "FETCH_HEAD", 0, FALSE, 0>> >>

\* C13 as stated: with the destination nonexistent (its probe exits
\* nonzero), confirm set and failOnNonexistentDst unset, mirror issues init,
\* remote add, a fetch at depth 2 and a non-dry-run push of FETCH_HEAD, and
\* returns no error.
C13_ColdCacheNonexistentDstOriginal ==
    (pc = "done" /\ confirm /\ ~failOnNonexistentDst /\ DstProbeFailed)
        => /\ result = "nil"
           /\ \E i \in Idx : calls[i].cmd = "init"
           /\ \E i \in Idx : calls[i].cmd = "remote-add"
           /\ \E i \in Idx : IsSrcFetch(i) /\ calls[i].mode = "depth" /\ calls[i].n = 2
           /\ \E i \in Idx : IsPush(i) /\ calls[i].mode = "FETCH_HEAD" /\ ~calls[i].dry

\* C13 amended: cold cache, confirm set, the destination probe exits zero
\* and lists the branch at another tip or not at all, the source lists the
\* branch, and every call but the remote probe exits zero: mirror issues
\* exactly probe, init, remote get-url, remote add, source ls-remote, one
\* fetch (depth 2, or unbounded when the destination lists no heads) and a
\* non-dry-run push of FETCH_HEAD; it returns no error and the destination
\* branch is at the source tip.
C13_ColdCacheConfirmedSync ==
    (/\ pc = "done"
     /\ confirm
     /\ Len(calls) >= 3
     /\ calls[3].cmd = "remote-get-url"
     /\ calls[3].exit # 0
     /\ \A i \in Idx : i # 3 => calls[i].exit = 0
     /\ HashOf(src, Branch) # NoHash
     /\ HashOf(dstAtStart, Branch) # HashOf(src, Branch))
        => /\ CallShapes = ColdCacheCalls(IF dstAtStart = {}
                                            THEN <<"fetch", "full", 0, FALSE, 0>>
                                            ELSE <<"fetch", "depth", 2, FALSE, 0>>)
           /\ result = "nil"
           /\ DstTip = HashOf(src, Branch)

C13_Witness ==
    /\ pc = "done"
    /\ confirm
    /\ result = "nil"
    /\ CallShapes = ColdCacheCalls(<<"fetch", "depth", 2, FALSE, 0>>)
    /\ HashOf(dstAtStart, Branch) = DestSha
    /\ DstTip = SourceSha

ReconcileCmds == <<"fetch-dst", "checkout", "merge", "push">>

ReconcilePcs == <<"mergeFetch", "checkout", "merge", "mergePush">>

\* Call i is the push rejected as too shallow after the unshallow fetch that
\* followed the rejection at depth 64.
RejectedAfterUnshallow(i) ==
    /\ i > 1
    /\ IsPush(i)
    /\ calls[i].exit # 0
    /\ calls[i].out = "remote contains work"
    /\ IsSrcFetch(i - 1)
    /\ calls[i - 1].mode = "unshallow"
    /\ \A d \in {2, 4, 8, 16, 32, 64} :
         \E k \in 1..(i - 1) :
            /\ IsSrcFetch(k) /\ calls[k].mode = "depth" /\ calls[k].n = d
            /\ IsPush(k + 1) /\ calls[k + 1].exit # 0

\* C14: after the push is rejected at every depth and again after the
\* unshallow fetch, the calls that follow are, in order, the fetch of the
\* destination branch, checkout FETCH_HEAD, the merge of <remote>/<branch>
\* with the configured identity and the fixed message, and the push of HEAD
\* (dry-run unless confirm); each is issued when its predecessors exited
\* zero, and when all four exit zero mirror returns no error.
C14_DivergentHistoriesMerge ==
    \A i \in Idx :
        RejectedAfterUnshallow(i)
            => /\ \A k \in 1..(Len(calls) - i) :
                    (\A m \in 1..(k - 1) : calls[i + m].exit = 0)
                        => /\ k <= 4
                           /\ calls[i + k].cmd = ReconcileCmds[k]
               /\ \A j \in (i + 1)..Len(calls) :
                    /\ calls[j].cmd = "checkout" => calls[j].mode = "FETCH_HEAD"
                    /\ calls[j].cmd = "merge"
                         => /\ calls[j].mode = "org-repo/branch"
                            /\ calls[j].name = "openshift-bot"
                            /\ calls[j].email = "openshift-bot@redhat.com"
                            /\ calls[j].message = "DPTP reconciliation from upstream"
                    /\ calls[j].cmd = "push"
                         => calls[j].mode = "HEAD" /\ (calls[j].dry <=> ~confirm)
               /\ (\A j \in (i + 1)..Len(calls) : calls[j].exit = 0)
                    => IF Len(calls) - i = 4
                         THEN pc = "done" /\ result = "nil"
                         ELSE pc = ReconcilePcs[Len(calls) - i + 1] /\ result = "running"

C14_Witness ==
    /\ Len(calls) > 4
    /\ RejectedAfterUnshallow(Len(calls) - 4)
    /\ \A j \in (Len(calls) - 3)..Len(calls) : calls[j].exit = 0
    /\ LastCall.cmd = "push"
    /\ LastCall.mode = "HEAD"
    /\ result = "nil"

\* C15: a push carries --dry-run if and only if confirm is not set; with
\* confirm set the push of FETCH_HEAD is issued without it.
C15_DryRunIffNotConfirm ==
    \A i \in Idx : IsPush(i) => (calls[i].dry <=> ~confirm)

C15_Witness ==
    /\ confirm
    /\ \E i \in Idx : IsPush(i) /\ calls[i].mode = "FETCH_HEAD" /\ ~calls[i].dry
    /\ \E i \in Idx : IsPush(i) /\ calls[i].mode = "HEAD" /\ ~calls[i].dry

HasCall(cmd) == \E i \in Idx : calls[i].cmd = cmd

DepthFetches == {i \in Idx : IsSrcFetch(i) /\ calls[i].mode = "depth"}

UnshallowFetches == {i \in Idx : IsSrcFetch(i) /\ calls[i].mode = "unshallow"}

\* C19: an invocation ends after a bounded number of executor calls whatever
\* the calls return: never more than 5 source ls-remote calls, 6
\* depth-limited fetches and one unshallow fetch, never more than 33 calls
\* in all; an invocation that has not returned is never stuck, and every
\* step of it is one more call, so no loop runs without bound.
C19_BoundedRetries ==
    /\ [](/\ Cardinality(LsSrcIdx) <= 5
          /\ Cardinality(DepthFetches) <= 6
          /\ Cardinality(UnshallowFetches) <= 1
          /\ Len(calls) <= 33
          /\ (pc = "done") <=> (result # "running")
          /\ pc # "done" => ENABLED Next)
    /\ [][pc # "done"
            => /\ Len(calls') = Len(calls) + 1
               /\ SubSeq(calls', 1, Len(calls)) = calls]_vars

C19_Witness ==
    /\ pc = "done"
    /\ Len(calls) = 33
    /\ Cardinality(LsSrcIdx) = 5
    /\ Cardinality(DepthFetches) = 6
    /\ Cardinality(UnshallowFetches) = 1

RealPushOk(c) == c.cmd = "push" /\ ~c.dry /\ c.exit = 0

\* C20: the destination changes only in the step of a push that is not a
\* dry run and exits zero, and then only in the ref of the mirrored branch;
\* an invocation that returns an error, and one with confirm unset, leave
\* the destination as it was when the invocation began.
C20_DestinationFrame ==
    /\ [](/\ dst.heads # dstAtStart
               => /\ Len(calls) >= 1
                  /\ RealPushOk(LastCall)
                  /\ result = "nil"
          /\ ~confirm => dst.heads = dstAtStart
          /\ result = "error" => dst.heads = dstAtStart
          /\ {h \in dst.heads : h[1] # Branch}
               = {h \in dstAtStart : h[1] # Branch})
    /\ [][dst' # dst
            => /\ Len(calls') = Len(calls) + 1
               /\ RealPushOk(calls'[Len(calls')])
               /\ confirm
               /\ dst'.exists = dst.exists]_vars

C20_Witness ==
    /\ confirm
    /\ pc = "done"
    /\ result = "nil"
    /\ RealPushOk(LastCall)
    /\ LastCall.mode = "FETCH_HEAD"
    /\ HashOf(dstAtStart, Branch) = DestSha
    /\ DstTip = SourceSha
    /\ dst.heads # dstAtStart
    /\ \E i \in Idx : IsPush(i) /\ calls[i].exit # 0

C23_PushesLast ==
    \A i \in Idx :
        IsPush(i) =>
            /\ calls[i].exit = 0
                 => /\ i = Len(calls)
                    /\ pc = "done"
                    /\ result = "nil"
            /\ i > 1
            /\ calls[i].mode \in {"FETCH_HEAD", "HEAD"}
            /\ calls[i].mode = "FETCH_HEAD"
                 => IsSrcFetch(i - 1) /\ calls[i - 1].exit = 0
            /\ calls[i].mode = "HEAD"
                 => calls[i - 1].cmd = "merge" /\ calls[i - 1].exit = 0

C23_Witness ==
    /\ pc = "done"
    /\ result = "nil"
    /\ Len(calls) >= 2
    /\ LastCall.cmd = "push"
    /\ LastCall.mode = "HEAD"
    /\ LastCall.exit = 0
    /\ calls[Len(calls) - 1].cmd = "merge"
    /\ \E i \in Idx : /\ IsPush(i)
                       /\ calls[i].mode = "FETCH_HEAD"
                       /\ calls[i].exit # 0
                       /\ calls[i - 1].mode = "full"

\* C24: the destination ls-remote is the first call and is made once; before
\* the first source ls-remote come init and remote get-url, and remote add
\* when get-url exited nonzero, all having succeeded; before any fetch comes
\* a source ls-remote that exited zero and listed the branch.
C24_StepOrdering ==
    /\ \A i \in Idx : (calls[i].cmd = "ls-remote-dst") <=> (i = 1)
    /\ \A i \in LsSrcIdx :
         /\ i >= 4
         /\ calls[2].cmd = "init" /\ calls[2].exit = 0
         /\ calls[3].cmd = "remote-get-url"
         /\ calls[3].exit # 0
              => /\ i >= 5
                 /\ calls[4].cmd = "remote-add"
                 /\ calls[4].exit = 0
         /\ calls[1].exit = 0
    /\ \A i \in Idx :
         calls[i].cmd \in {"fetch", "fetch-dst"}
            => \E j \in LsSrcIdx : /\ j < i
                                    /\ calls[j].exit = 0
                                    /\ calls[j].out # NoHash
                                    /\ calls[j].out = HashOf(src, Branch)
                                    /\ HasCall("init")

C24_Witness ==
    /\ Len(calls) >= 7
    /\ calls[3].exit # 0
    /\ calls[4].cmd = "remote-add"
    /\ calls[5].cmd = "ls-remote-src"
    /\ calls[5].exit # 0
    /\ calls[6].cmd = "ls-remote-src"
    /\ calls[6].exit = 0
    /\ calls[7].cmd = "fetch"
    /\ calls[7].mode = "depth"

\* C25: a remote add or a source fetch that exits nonzero is the last call
\* of its invocation, which returns an error: no source ls-remote follows
\* the failed remote add and no push the failed fetch.
C25_SetupAndFetchFailFast ==
    \A i \in Idx :
        (calls[i].cmd \in {"remote-add", "fetch"} /\ calls[i].exit # 0)
            => /\ i = Len(calls)
               /\ pc = "done"
               /\ result = "error"
               /\ calls[i].cmd = "remote-add" => ~HasCall("ls-remote-src")
               /\ calls[i].cmd = "fetch"
                    => \A j \in Idx : IsPush(j) => (j < i /\ calls[j].exit # 0)
               /\ dst.heads = dstAtStart

C25_Witness ==
    /\ result = "error"
    /\ LastCall.cmd = "fetch"
    /\ LastCall.mode = "depth"
    /\ LastCall.n = startDepth
    /\ LastCall.exit # 0
    /\ HasCall("remote-add")
    /\ ~HasCall("push")
    /\ confirm

\* The first source fetch of the invocation, if any.
FirstSrcFetch == {i \in Idx : IsSrcFetch(i) /\ \A k \in 1..(i - 1) : ~IsSrcFetch(k)}

\* C26: the first source fetch has depth 2 when the destination listed at
\* least one head, whether or not the branch is among them, and no depth
\* when the destination probe exited zero and listed no head.
C26_InitialFetchDepth ==
    \A i \in FirstSrcFetch :
        /\ calls[1].cmd = "ls-remote-dst"
        /\ calls[1].exit = 0
        /\ dstAtStart # {}
             => calls[i].mode = "depth" /\ calls[i].n = 2
        /\ dstAtStart = {}
             => calls[i].mode = "full" /\ calls[i].n = 0

C26_Witness ==
    /\ dstAtStart = {<<Another, AnotherSha>>}
    /\ \E i \in FirstSrcFetch : calls[i].mode = "depth" /\ calls[i].n = 2
    /\ LastCall.cmd = "push"
    /\ LastCall.exit = 0

\* C27: a source fetch other than the first comes right after a rev-parse
\* --is-shallow-repository that exited zero and said "true", and every such
\* query comes right after a push that exited nonzero with the
\* too-shallow signature in its output.
C27_EscalationGuard ==
    /\ \A i \in Idx :
         (IsSrcFetch(i) /\ i \notin FirstSrcFetch)
            => /\ calls[i].mode = "unshallow" \/ calls[i].n > startDepth
               /\ calls[i - 1].cmd = "rev-parse"
               /\ calls[i - 1].exit = 0
               /\ calls[i - 1].out = "true"
    /\ \A i \in Idx :
         (IsSrcFetch(i) /\ i \in FirstSrcFetch)
            => calls[i].mode = "full" \/ calls[i].n = startDepth
    /\ \A i \in Idx :
         calls[i].cmd = "rev-parse"
            => /\ i > 1
               /\ IsPush(i - 1)
               /\ calls[i - 1].mode = "FETCH_HEAD"
               /\ calls[i - 1].exit # 0
               /\ calls[i - 1].out = "remote contains work"

C27_Witness ==
    /\ Len(calls) >= 3
    /\ LastCall.cmd = "fetch"
    /\ LastCall.mode = "depth"
    /\ LastCall.n = 4
    /\ calls[Len(calls) - 1].cmd = "rev-parse"
    /\ calls[Len(calls) - 1].out = "true"
    /\ calls[Len(calls) - 2].out = "remote contains work"

\* Call i is a shallow query that exited zero and said the clone is not
\* shallow.
NotShallowAt(i) ==
    /\ calls[i].cmd = "rev-parse"
    /\ calls[i].exit = 0
    /\ calls[i].out = "false"

\* C28: when the push is rejected as too shallow and the shallow query says
\* the clone is not shallow, mirror does not return at that point and makes
\* no further source fetch: the next call is the fetch of the destination
\* branch, the first of the reconciliation.
C28_NotShallowReconciles ==
    \A i \in Idx :
        NotShallowAt(i)
            => /\ IsPush(i - 1) /\ calls[i - 1].out = "remote contains work"
               /\ IF i = Len(calls)
                    THEN pc = "mergeFetch" /\ result = "running"
                    ELSE calls[i + 1].cmd = "fetch-dst"
               /\ \A j \in Idx : j > i => ~IsSrcFetch(j)

C28_Witness ==
    /\ \E i \in Idx : NotShallowAt(i) /\ i = 7
    /\ pc = "done"
    /\ result = "nil"
    /\ LastCall.cmd = "push"
    /\ LastCall.mode = "HEAD"

MergePushes == {i \in Idx : IsPush(i) /\ calls[i].mode = "HEAD"}

\* C29: the reconciliation is made at most once: a push of the merge that
\* exits nonzero, whatever its output, is the last call and mirror returns
\* an error; no invocation fetches the destination branch, checks out or
\* merges twice, and none fetches from the source after the reconciliation
\* began.
C29_ReconcileOnce ==
    /\ \A i \in MergePushes :
         /\ i = Len(calls)
         /\ pc = "done"
         /\ calls[i].exit # 0 => result = "error"
         /\ calls[i - 1].cmd = "merge" /\ calls[i - 1].exit = 0
    /\ \A c \in {"fetch-dst", "checkout", "merge", "merge-abort"} :
         Cardinality({i \in Idx : calls[i].cmd = c}) <= 1
    /\ Cardinality(MergePushes) <= 1
    /\ \A i, j \in Idx :
         (calls[i].cmd = "fetch-dst" /\ j > i) => ~IsSrcFetch(j)

C29_Witness ==
    /\ pc = "done"
    /\ result = "error"
    /\ LastCall.cmd = "push"
    /\ LastCall.mode = "HEAD"
    /\ LastCall.exit # 0
    /\ LastCall.out = "non-fast-forward"
    /\ calls[Len(calls) - 1].cmd = "merge"
    /\ calls[Len(calls) - 1].exit = 0

\* The tips of refs/heads/<branch> at the source and, when the invocation
\* began, at the destination.
SrcBranchTip == HashOf(src, Branch)

DstBranchTipAtStart == HashOf(dstAtStart, Branch)

\* What mirror decides after a source ls-remote that exited zero is decided
\* by the two tips of the branch: error when the source does not list it,
\* no further call when the tips are equal, a fetch of it otherwise; what is
\* fetched and pushed is the source tip of the branch.
DecidedByBranchTips ==
    /\ \A i \in Idx :
         (calls[i].cmd = "ls-remote-dst" /\ calls[i].exit = 0)
            => calls[i].out = DstBranchTipAtStart
    /\ \A i \in LsSrcIdx :
         calls[i].exit = 0
            => /\ calls[i].out = SrcBranchTip
               /\ SrcBranchTip = NoHash
                    => i = Len(calls) /\ result = "error"
               /\ (SrcBranchTip # NoHash /\ SrcBranchTip = DstBranchTipAtStart)
                    => i = Len(calls) /\ result = "nil"
               /\ (SrcBranchTip # NoHash /\ SrcBranchTip # DstBranchTipAtStart)
                    => IF i = Len(calls)
                         THEN pc = "fetch" /\ result = "running"
                         ELSE IsSrcFetch(i + 1)
    /\ \A i \in Idx :
         (IsPush(i) /\ calls[i].mode = "FETCH_HEAD" /\ i = Len(calls))
            => fetchHead = SrcBranchTip
    /\ \A i \in Idx :
         (IsPush(i) /\ calls[i].mode = "FETCH_HEAD" /\ calls[i].exit = 0 /\ ~calls[i].dry)
            => /\ DstTip = SrcBranchTip
               /\ HashOf(dst.heads, Another) = HashOf(dstAtStart, Another)

\* C30 as stated: the calls depend on the listed heads through the tips of
\* the branch alone; a destination that lists only other branches is
\* fetched for as one that lists nothing, without depth.
C30_BranchSelectionOriginal ==
    /\ DecidedByBranchTips
    /\ \A i \in FirstSrcFetch :
         calls[i].mode = IF DstBranchTipAtStart = NoHash THEN "full" ELSE "depth"

\* C30 amended: the convergence decision and what is fetched and pushed
\* depend on the tips of refs/heads/<branch> alone; other listed branches
\* change one thing, the first fetch, which has no depth only when the
\* destination lists no head at all.
C30_BranchSelection ==
    /\ DecidedByBranchTips
    /\ \A i \in FirstSrcFetch :
         calls[i].mode = IF dstAtStart = {} THEN "full" ELSE "depth"

C30_Witness ==
    /\ src = {<<Branch, SourceSha>>, <<Another, AnotherSha>>}
    /\ dstAtStart = {<<Branch, DestSha>>, <<Another, AnotherSha>>}
    /\ confirm
    /\ pc = "done"
    /\ result = "nil"
    /\ Len(calls) = 6
    /\ calls[5].cmd = "fetch"
    /\ calls[5].n = startDepth
    /\ LastCall.cmd = "push"
    /\ dst.heads = {<<Branch, SourceSha>>, <<Another, AnotherSha>>}

\* C31: in one working directory shared by two invocations FETCH_HEAD is
\* whatever the last fetch of either wrote, and a push sends it: mirror's
\* destination gets the other invocation's commit, and only when that
\* invocation fetched while mirror stood between its fetch and its push;
\* mirror returns no error all the same.
C31_SharedDirectoryRace ==
    /\ DstTip \in {NoHash, DestSha, SourceSha, MergeSha, PeerSha}
    /\ DstTip = PeerSha
         => /\ peer.sawPc = "push"
            /\ result = "nil"
            /\ LastCall.cmd = "push"
            /\ LastCall.mode = "FETCH_HEAD"
            /\ SrcBranchTip = SourceSha
    /\ peer.dstTip \in {NoHash, PeerSha, SourceSha, DestSha}

C31_Witness ==
    /\ pc = "done"
    /\ result = "nil"
    /\ DstTip = PeerSha
    /\ SrcBranchTip = SourceSha
    /\ peer.dir = RepoDir
    /\ peer.dstTip = PeerSha

\* How an invocation in confirm mode that returned no error leaves the
\* destination: at the source tip after a push of FETCH_HEAD, at the merge
\* commit after a push of HEAD.
SuccessLeaves ==
    (pc = "done" /\ result = "nil" /\ confirm /\ Len(calls) > 1)
        => /\ (LastCall.cmd = "push" /\ LastCall.mode = "FETCH_HEAD")
                => DstTip = SrcBranchTip
           /\ (LastCall.cmd = "push" /\ LastCall.mode = "HEAD")
                => DstTip = MergeSha /\ MergeSha # SrcBranchTip
           /\ LastCall.cmd = "ls-remote-src" => DstTip = SrcBranchTip

\* C32 as stated: an invocation repeated after one that returned no error
\* in confirm mode makes no fetch and no push, whether the first pushed
\* FETCH_HEAD or the merge.
C32_RepeatIdempotenceOriginal ==
    (runs >= 2 /\ DstBranchTipAtStart \in {SrcBranchTip, MergeSha}) => NoFetchNoPush

\* C32 amended: after an invocation in confirm mode that pushed FETCH_HEAD
\* the destination tip is the source tip and the repeated invocation makes
\* no fetch and no push; after a reconciliation the destination tip is the
\* merge commit, not the source tip, and the repeated invocation, once it
\* has listed the source, fetches again.
C32_RepeatIdempotence ==
    /\ SuccessLeaves
    /\ (runs >= 2 /\ DstBranchTipAtStart = SrcBranchTip)
         => /\ NoFetchNoPush
            /\ dst.heads = dstAtStart
            /\ \A i \in LsSrcIdx : calls[i].exit = 0 => (i = Len(calls) /\ result = "nil")
    /\ (runs >= 2 /\ DstBranchTipAtStart = MergeSha)
         => \A i \in LsSrcIdx :
               calls[i].exit = 0
                  => IF i = Len(calls) THEN pc = "fetch" ELSE IsSrcFetch(i + 1)

C32_Witness ==
    /\ runs = 2
    /\ DstBranchTipAtStart = SourceSha
    /\ pc = "done"
    /\ result = "nil"
    /\ LastCall.cmd = "ls-remote-src"
    /\ LastCall.exit = 0
    /\ NoFetchNoPush

-----------------------------------------------------------------------------
(* Evaluation of single functions.  The arguments are drawn in the initial  *)
(* state and one action applies the function; the mirror and the naming     *)
(* variables stay idle.                                                      *)

\* Nothing but the evaluation of one function goes on.
EvalIdle ==
    /\ MirrorIdle
    /\ options = [targetOrg |-> "openshift-priv", org |-> "", flattenOrgs |-> {}]
    /\ source = NoLocation
    /\ other = NoLocation
    /\ destination = NoLocation
    /\ otherDestination = NoLocation
    /\ second = DefaultSecond
    /\ peer = NoPeer
    /\ ret = NoRet

\* What an evaluation leaves alone.
evalFrame == <<mirrorVars, namingVars, second, caller, peer, args>>

-----------------------------------------------------------------------------
(* The repository filter of TestOptionsMakeFilter.                           *)

\* The table of TestOptionsMakeFilter; fields left out in a row of the test
\* have their zero value.
FilterTestCases ==
    { [optionOrg |-> "", optionRepo |-> "", repoOrg |-> "", repoName |-> "",
       callbackError |-> "nil", official |-> TRUE,
       expectCall |-> TRUE, expectError |-> FALSE],
      [optionOrg |-> "org", optionRepo |-> "", repoOrg |-> "org", repoName |-> "",
       callbackError |-> "nil", official |-> TRUE,
       expectCall |-> TRUE, expectError |-> FALSE],
      [optionOrg |-> "org", optionRepo |-> "", repoOrg |-> "not-org", repoName |-> "",
       callbackError |-> "nil", official |-> TRUE,
       expectCall |-> FALSE, expectError |-> FALSE],
      [optionOrg |-> "", optionRepo |-> "org/repo", repoOrg |-> "org", repoName |-> "repo",
       callbackError |-> "nil", official |-> TRUE,
       expectCall |-> TRUE, expectError |-> FALSE],
      [optionOrg |-> "", optionRepo |-> "org/repo", repoOrg |-> "org", repoName |-> "not-repo",
       callbackError |-> "nil", official |-> TRUE,
       expectCall |-> FALSE, expectError |-> FALSE],
      [optionOrg |-> "", optionRepo |-> "", repoOrg |-> "", repoName |-> "",
       callbackError |-> "FAIL", official |-> TRUE,
       expectCall |-> TRUE, expectError |-> TRUE],
      [optionOrg |-> "", optionRepo |-> "", repoOrg |-> "", repoName |-> "",
       callbackError |-> "nil", official |-> FALSE,
       expectCall |-> FALSE, expectError |-> FALSE] }

\* Mutant of KeptByFilter: the only-repo option is ignored.
KeptByFilterIgnoringRepo(o, official, info) ==
    /\ official
    /\ o.org = "" \/ o.org = info.org

\* Whether the filter lets a configuration through to the callback.
KeptByFilter(o, official, info) ==
    /\ official
    /\ o.org = "" \/ o.org = info.org
    /\ o.repo = "" \/ o.repo = info.org \o "/" \o info.repo

\* o.makeFilter(callback)(ciop, info): whether the callback was called and
\* the error the filter returned.
makeFilter(o, official, info, callbackError) ==
    LET called == KeptByFilter(o, official, info)
    IN  [fn |-> "makeFilter",
         called |-> called,
         err |-> IF called THEN callbackError ELSE "nil"]

FilterOptionOrgs == {"", "org", "other"}
FilterOptionRepos == {"", "org/repo", "org/other"}
FilterRepoOrgs == {"", "org", "not-org"}
FilterRepoNames == {"", "repo", "not-repo"}
CallbackErrors == {"nil", "FAIL"}

InitFilter ==
    /\ EvalIdle
    /\ caller = "TestOptionsMakeFilter"
    /\ \E optionOrg \in FilterOptionOrgs, optionRepo \in FilterOptionRepos,
          repoOrg \in FilterRepoOrgs, repoName \in FilterRepoNames,
          callbackError \in CallbackErrors, official \in BOOLEAN :
         args = [fn |-> "makeFilter",
                 o |-> [org |-> optionOrg, repo |-> optionRepo],
                 official |-> official,
                 info |-> [org |-> repoOrg, repo |-> repoName],
                 callbackError |-> callbackError]

\* The filter is built and applied once.
ApplyFilter ==
    /\ args.fn = "makeFilter"
    /\ ret.fn = "none"
    /\ ret' = makeFilter(args.o, args.official, args.info, args.callbackError)
    /\ UNCHANGED evalFrame

NextFilter == ApplyFilter

SpecFilter == InitFilter /\ [][NextFilter]_vars

\* The row of the test table the arguments are, if any.
FilterRowsOfArgs ==
    { tc \in FilterTestCases :
        /\ tc.optionOrg = args.o.org
        /\ tc.optionRepo = args.o.repo
        /\ tc.repoOrg = args.info.org
        /\ tc.repoName = args.info.repo
        /\ tc.callbackError = args.callbackError
        /\ tc.official = args.official }

\* C33: the filter calls the callback exactly when the configuration builds
\* official images, the only-org option is unset or is the repository's
\* organization, and the only-repo option is unset or is "<org>/<repo>";
\* it returns the callback's error when it called it and no error when it
\* did not; on the rows of TestOptionsMakeFilter the call and the error are
\* what the test expects.
C33_RepositoryFilter ==
    ret.fn = "makeFilter" =>
    /\ ret.called <=>
         /\ args.official
         /\ args.o.org = "" \/ args.o.org = args.info.org
         /\ args.o.repo = "" \/ args.o.repo = args.info.org \o "/" \o args.info.repo
    /\ ret.called => ret.err = args.callbackError
    /\ ~ret.called => ret.err = "nil"
    /\ \A tc \in FilterRowsOfArgs :
         /\ ret.called = tc.expectCall
         /\ (ret.err # "nil") = tc.expectError

C33_Witness ==
    /\ ret.fn = "makeFilter"
    /\ args.o.repo = "org/repo"
    /\ args.info = [org |-> "org", repo |-> "not-repo"]
    /\ args.official
    /\ ~ret.called
    /\ ret.err = "nil"
    /\ FilterRowsOfArgs # {}

-----------------------------------------------------------------------------
(* Strings of csi_utils.go.  A string is the sequence of its characters,    *)
(* each a one-character string, so that lengths, joins, lower-casing and    *)
(* the byte order of sort.Strings are computed and not assumed.              *)

Digits == <<"0", "1", "2", "3", "4", "5", "6", "7", "8", "9">>
UpperCase == <<"A", "B", "C", "D", "E", "F", "G", "H", "I", "J", "K", "L", "M",
               "N", "O", "P", "Q", "R", "S", "T", "U", "V", "W", "X", "Y", "Z">>
LowerCase == <<"a", "b", "c", "d", "e", "f", "g", "h", "i", "j", "k", "l", "m",
               "n", "o", "p", "q", "r", "s", "t", "u", "v", "w", "x", "y", "z">>

\* The position of a character in a sequence of characters, 0 if absent.
PosIn(c, cs) ==
    IF \E i \in DOMAIN cs : cs[i] = c
    THEN CHOOSE i \in DOMAIN cs : cs[i] = c
    ELSE 0

\* The byte of an ASCII character.
Byte(c) ==
    IF c = "-" THEN 45
    ELSE IF c = "/" THEN 47
    ELSE IF c = ":" THEN 58
    ELSE IF PosIn(c, Digits) > 0 THEN 47 + PosIn(c, Digits)
    ELSE IF PosIn(c, UpperCase) > 0 THEN 64 + PosIn(c, UpperCase)
    ELSE 96 + PosIn(c, LowerCase)

\* strings.ToLower on ASCII.
ToLower(s) ==
    [i \in DOMAIN s |->
        IF PosIn(s[i], UpperCase) > 0 THEN LowerCase[PosIn(s[i], UpperCase)] ELSE s[i]]

\* strings.Join.
RECURSIVE Join(_, _)
Join(parts, sep) ==
    IF parts = <<>> THEN <<>>
    ELSE IF Len(parts) = 1 THEN parts[1]
    ELSE parts[1] \o sep \o Join(Tail(parts), sep)

\* The running value the digest is drawn from.
RECURSIVE Mix(_, _)
Mix(s, h) ==
    IF s = <<>> THEN h
    ELSE Mix(Tail(s), (h * 31 + Byte(Head(s))) % 65521)

\* sha256.Sum256: a fixed function from strings to 32 bytes.  The digest
\* itself is not SHA-256; what is kept is that it is a function of the bytes
\* hashed and that it has 32 bytes.
Sum256(s) ==
    LET h == Mix(s, 7)
    IN  [i \in 1..32 |-> (h * (2 * i + 1) + i * i) % 256]

HexDigits == <<"0", "1", "2", "3", "4", "5", "6", "7", "8", "9",
               "a", "b", "c", "d", "e", "f">>

\* fmt.Sprintf("%x", bytes): two lower-case hexadecimal digits a byte.
RECURSIVE Hex(_)
Hex(bytes) ==
    IF bytes = <<>> THEN <<>>
    ELSE <<HexDigits[(Head(bytes) \div 16) + 1], HexDigits[(Head(bytes) % 16) + 1]>>
         \o Hex(Tail(bytes))

\* A string of n times the character c.
Repeat(c, n) == [i \in 1..n |-> c]

-----------------------------------------------------------------------------
(* getCSIVolumeName.                                                         *)

\* The longest name of a volume.
MaxVolumeNameLen == 63

\* Mutant of NameTooLong: a name of 64 characters passes.
NameTooLongOffByOne(name) == Len(name) > MaxVolumeNameLen + 1

\* Whether the name with the namespace is too long for a volume.
NameTooLong(name) == Len(name) > MaxVolumeNameLen

getCSIVolumeName(ns, collection, mountPath) ==
    LET hash == Sum256(Join(<<collection, mountPath>>, <<"-">>))
        hashStr == Hex(SubSeq(hash, 1, 8))
        name == ns \o <<"-">> \o hashStr
    IN  IF NameTooLong(name)
        THEN ToLower(Hex(SubSeq(hash, 1, 16)))
        ELSE ToLower(name)

\* Namespaces: empty, short, and of the lengths around which the name with
\* the namespace passes 63 characters, in lower and in upper case.
NamespaceLens == {0, 1, 5, 45, 46, 47, 48, 63}
Namespaces ==
    {Repeat(c, n) : c \in {"n", "N"}, n \in NamespaceLens}
        \cup {<<"c", "i", "-", "o", "p", "-", "1", "a">>}

Collections == {<<"c">>, <<"c", "o", "l", "l">>, <<"c", "-", "m">>}
MountPaths == {<<"/", "m">>, <<"/", "t", "m", "p", "/", "s">>, <<"m">>}

InitVolumeName ==
    /\ EvalIdle
    /\ caller = "getCSIVolumeName"
    /\ \E ns \in Namespaces, collection \in Collections, mountPath \in MountPaths :
         args = [fn |-> "getCSIVolumeName", ns |-> ns,
                 collection |-> collection, mountPath |-> mountPath]

ApplyVolumeName ==
    /\ args.fn = "getCSIVolumeName"
    /\ ret.fn = "none"
    /\ ret' = [fn |-> "getCSIVolumeName",
               name |-> getCSIVolumeName(args.ns, args.collection, args.mountPath)]
    /\ UNCHANGED evalFrame

NextVolumeName == ApplyVolumeName

SpecVolumeName == InitVolumeName /\ [][NextVolumeName]_vars

IsHex(s) == \A i \in DOMAIN s : PosIn(s[i], HexDigits) > 0

\* C34: the volume name is at most 63 characters long; it is the
\* lower-cased namespace, "-" and 16 hexadecimal digits when that is at most
\* 63 characters, and 32 hexadecimal digits alone otherwise; it has no
\* upper-case character, and two evaluations on the same arguments give the
\* same name.
C34_VolumeNameLength ==
    ret.fn = "getCSIVolumeName" =>
    LET withNs == Len(args.ns) + 1 + 16
        digits == Hex(Sum256(Join(<<args.collection, args.mountPath>>, <<"-">>)))
    IN  /\ Len(ret.name) <= 63
        /\ withNs <= 63
             => /\ Len(ret.name) = withNs
                /\ SubSeq(ret.name, 1, Len(args.ns)) = ToLower(args.ns)
                /\ ret.name[Len(args.ns) + 1] = "-"
                /\ SubSeq(ret.name, Len(args.ns) + 2, withNs) = SubSeq(digits, 1, 16)
        /\ withNs > 63
             => /\ Len(ret.name) = 32
                /\ ret.name = SubSeq(digits, 1, 32)
        /\ IsHex(SubSeq(ret.name, Len(ret.name) - 15, Len(ret.name)))
        /\ \A i \in DOMAIN ret.name : PosIn(ret.name[i], UpperCase) = 0
        /\ ret.name = getCSIVolumeName(args.ns, args.collection, args.mountPath)

C34_Witness ==
    /\ ret.fn = "getCSIVolumeName"
    /\ Len(args.ns) = 47
    /\ Len(ret.name) = 32
    /\ IsHex(ret.name)

-----------------------------------------------------------------------------
(* groupCredentialsByCollectionAndMountPath.  A credential is a record of   *)
(* the fields of api.CredentialReference the functions read; the map        *)
(* returned is a function from keys to lists.                                *)

\* All lists of at most n elements of S.
SeqsUpTo(S, n) == UNION {[1..k -> S] : k \in 0..n}

\* The elements of a list.
Range(f) == {f[i] : i \in DOMAIN f}

\* The key of the group of a credential: fmt.Sprintf("%s:%s", ...).
GroupKey(credential) == credential.collection \o <<":">> \o credential.mountPath

\* The loop of groupCredentialsByCollectionAndMountPath over what is left of
\* the credentials.
RECURSIVE GroupInto(_, _)
GroupInto(credentials, mountGroups) ==
    IF credentials = <<>> THEN mountGroups
    ELSE LET credential == Head(credentials)
             key == GroupKey(credential)
             old == IF key \in DOMAIN mountGroups THEN mountGroups[key] ELSE <<>>
         IN  GroupInto(Tail(credentials),
                       [k \in DOMAIN mountGroups \cup {key} |->
                           IF k = key THEN Append(old, credential) ELSE mountGroups[k]])

groupCredentialsByCollectionAndMountPath(credentials) == GroupInto(credentials, <<>>)

\* Collections and mount paths, with and without the character of the key.
GroupCollections == {<<"a">>, <<"a", ":", "/", "b">>}
GroupMountPaths == {<<"/", "c">>, <<"/", "b", ":", "/", "c">>}
GroupNames == {<<"x">>, <<"y">>}
GroupCredentials ==
    [collection : GroupCollections, mountPath : GroupMountPaths, name : GroupNames]

InitGroup ==
    /\ EvalIdle
    /\ caller = "groupCredentialsByCollectionAndMountPath"
    /\ \E credentials \in SeqsUpTo(GroupCredentials, MaxCreds) :
         args = [fn |-> "groupCredentialsByCollectionAndMountPath",
                 credentials |-> credentials]

ApplyGroup ==
    /\ args.fn = "groupCredentialsByCollectionAndMountPath"
    /\ ret.fn = "none"
    /\ ret' = [fn |-> "groupCredentialsByCollectionAndMountPath",
               mountGroups |-> groupCredentialsByCollectionAndMountPath(args.credentials)]
    /\ UNCHANGED evalFrame

NextGroup == ApplyGroup

SpecGroup == InitGroup /\ [][NextGroup]_vars

\* The credentials of the input with the collection and the mount path of c,
\* in input order.
SamePair(c) ==
    SelectSeq(args.credentials,
              LAMBDA d : d.collection = c.collection /\ d.mountPath = c.mountPath)

\* C35: the groups partition the input: every credential is in exactly
\* one group, each group keeps the input order, and two credentials are in
\* one group if and only if they have the same collection and the same
\* mount path, so that each group is the credentials of one pair.
C35_GroupingPartition ==
    ret.fn = "groupCredentialsByCollectionAndMountPath" =>
    LET credentials == args.credentials
        groups == ret.mountGroups
    IN  /\ \A i \in DOMAIN credentials :
             \E k \in DOMAIN groups :
                /\ credentials[i] \in Range(groups[k])
                /\ \A l \in DOMAIN groups : credentials[i] \in Range(groups[l]) => l = k
        /\ \A k \in DOMAIN groups :
             /\ groups[k] # <<>>
             /\ groups[k] = SamePair(groups[k][1])
        /\ \A i, j \in DOMAIN credentials :
             (\E k \in DOMAIN groups : {credentials[i], credentials[j]} \subseteq Range(groups[k]))
                <=> /\ credentials[i].collection = credentials[j].collection
                    /\ credentials[i].mountPath = credentials[j].mountPath

-----------------------------------------------------------------------------
(* getSPCName.                                                               *)

\* The byte order of strings.
RECURSIVE StrLess(_, _)
StrLess(a, b) ==
    IF a = <<>> THEN b # <<>>
    ELSE IF b = <<>> THEN FALSE
    ELSE IF Byte(Head(a)) # Byte(Head(b)) THEN Byte(Head(a)) < Byte(Head(b))
    ELSE StrLess(Tail(a), Tail(b))

RECURSIVE InsertSorted(_, _)
InsertSorted(x, sorted) ==
    IF sorted = <<>> THEN <<x>>
    ELSE IF StrLess(x, Head(sorted)) THEN <<x>> \o sorted
    ELSE <<Head(sorted)>> \o InsertSorted(x, Tail(sorted))

\* Mutant of SortStrings: the names are left in the order they came.
SortStringsSkipped(ss) == ss

\* sort.Strings.
RECURSIVE SortStrings(_)
SortStrings(ss) ==
    IF ss = <<>> THEN <<>>
    ELSE InsertSorted(Head(ss), SortStrings(Tail(ss)))

getSPCName(namespace, collection, mountPath, credentials) ==
    LET credNames == [i \in DOMAIN credentials |-> credentials[i].name]
        parts == <<collection, mountPath>> \o SortStrings(credNames)
        hash == Sum256(Join(parts, <<"-">>))
        hashStr == Hex(SubSeq(hash, 1, 12))
        name == namespace \o <<"-">> \o hashStr \o <<"-", "s", "p", "c">>
    IN  ToLower(name)

\* The caller's slice after getSPCName: the names are copied into a slice
\* of their own before they are sorted.
CredentialsAfterSPCName(credentials) == credentials

SPCNamespaces == {<<"n", "s">>, <<"N", "s">>}
SPCNames == {<<"b">>, <<"a">>, <<"a", "b">>, <<"B">>}
SPCCredentials ==
    [collection : {<<"c">>}, mountPath : {<<"/", "m">>}, name : SPCNames]

InitSPCName ==
    /\ EvalIdle
    /\ caller = "getSPCName"
    /\ \E namespace \in SPCNamespaces, credentials \in SeqsUpTo(SPCCredentials, MaxCreds) :
         args = [fn |-> "getSPCName", namespace |-> namespace,
                 collection |-> <<"c">>, mountPath |-> <<"/", "m">>,
                 credentials |-> credentials]

ApplySPCName ==
    /\ args.fn = "getSPCName"
    /\ ret.fn = "none"
    /\ ret' = [fn |-> "getSPCName",
               name |-> getSPCName(args.namespace, args.collection, args.mountPath,
                                   args.credentials),
               credentials |-> CredentialsAfterSPCName(args.credentials)]
    /\ UNCHANGED evalFrame

NextSPCName == ApplySPCName

SpecSPCName == InitSPCName /\ [][NextSPCName]_vars

\* The rearrangements of a list.
Rearrangements(f) ==
    LET n == Len(f)
        bijections == {p \in [1..n -> 1..n] : \A i, j \in 1..n : p[i] = p[j] => i = j}
    IN  {[i \in 1..n |-> f[p[i]]] : p \in bijections}

\* C36: every rearrangement of the credentials gives, with the same
\* namespace, collection and mount path, the name the call returned, and
\* after the call the caller's credentials are in the order they were in.
C36_SPCNameOrderFree ==
    ret.fn = "getSPCName" =>
    /\ \A credentials \in Rearrangements(args.credentials) :
         getSPCName(args.namespace, args.collection, args.mountPath, credentials) = ret.name
    /\ ret.credentials = args.credentials

C36_Witness ==
    /\ ret.fn = "getSPCName"
    /\ Len(args.credentials) = 3
    /\ args.credentials[1].name = <<"b">>
    /\ args.credentials[2].name = <<"a", "b">>
    /\ args.credentials[3].name = <<"a">>
    /\ ret.credentials = args.credentials
    /\ Len(ret.name) = 2 + 1 + 24 + 4

-----------------------------------------------------------------------------
(* TestInputImageStreamTagsFromResolvedConfig.  A pointer is a list of at   *)
(* most one element, <<>> for nil; a Go map read in a loop is a set with    *)
(* the order of the loop chosen by the action.                               *)

\* "<namespace>/<name>:<tag>", the key of the map.
imageStreamTagReferenceToString(istr) ==
    istr.namespace \o "/" \o istr.name \o ":" \o istr.tag

\* The types.NamespacedName stored for a tag.
NamespacedNameOf(item) ==
    [namespace |-> item.namespace, name |-> item.name \o ":" \o item.tag]

\* m with the key k set to v.
MapSet(m, k, v) == [x \in DOMAIN m \cup {k} |-> IF x = k THEN v ELSE m[x]]

insert(item, m) ==
    IF imageStreamTagReferenceToString(item) \in DOMAIN m
    THEN m
    ELSE MapSet(m, imageStreamTagReferenceToString(item), NamespacedNameOf(item))

\* The calls of insert on the items of a list, in order.
RECURSIVE InsertAll(_, _)
InsertAll(items, m) ==
    IF items = <<>> THEN m
    ELSE InsertAll(Tail(items), insert(Head(items), m))

\* The elements of a list of pointers that are not nil, in order.
RECURSIVE NonNil(_)
NonNil(pointers) ==
    IF pointers = <<>> THEN <<>>
    ELSE Head(pointers) \o NonNil(Tail(pointers))

\* insertTagReferencesFromSteps: the FromImage of the pre, test and post
\* steps, then of the observers.
TagReferencesFromSteps(config) == NonNil(config.steps) \o NonNil(config.observers)

\* The zero value of api.ImageStreamTagReference.
ZeroTag == [namespace |-> "", name |-> "", tag |-> ""]

\* tagReferenceInRepoConfigFile: the tag and the error, <<>> for no error.
tagReferenceInRepoConfigFile(file) ==
    IF file.kind = "getError" THEN [tagRef |-> ZeroTag, err |-> <<"failed to get">>]
    ELSE IF file.kind = "noData" THEN [tagRef |-> ZeroTag, err |-> <<>>]
    ELSE IF file.kind = "badYaml" THEN [tagRef |-> ZeroTag, err |-> <<"failed to unmarshal">>]
    ELSE [tagRef |-> file.buildRootImage, err |-> <<>>]

\* What the build root inserts: its tag, the build cache, the tag of the
\* in-repo config file when it was read and is complete.
BuildRootItems(cfg, env) ==
    IF cfg.BuildRootImage = <<>> THEN <<>>
    ELSE LET root == cfg.BuildRootImage[1]
             inRepo == tagReferenceInRepoConfigFile(env.file)
         IN  root.ImageStreamTagReference
             \o (IF root.UseBuildCache THEN <<env.buildCache>> ELSE <<>>)
             \o (IF root.FromRepository /\ env.repoFileGetter
                 THEN IF inRepo.err # <<>> THEN <<>>
                      ELSE IF /\ inRepo.tagRef.namespace # ""
                              /\ inRepo.tagRef.name # ""
                              /\ inRepo.tagRef.tag # ""
                           THEN <<inRepo.tagRef>>
                           ELSE <<>>
                 ELSE <<>>)

\* Mutant of Unresolved: a test with the reference set counts as unresolved
\* whether or not its literal is set.
UnresolvedByReference(testStep) == testStep.MultiStageTestConfiguration

\* Whether a test is unresolved: the reference set, the literal not.
Unresolved(testStep) ==
    /\ testStep.MultiStageTestConfiguration
    /\ testStep.MultiStageTestConfigurationLiteral = <<>>

\* What a test inserts and the errors it adds.
TestItems(testStep) ==
    IF testStep.MultiStageTestConfigurationLiteral # <<>>
    THEN TagReferencesFromSteps(testStep.MultiStageTestConfigurationLiteral[1])
    ELSE <<>>

TestErrs(testStep) ==
    IF Unresolved(testStep) THEN <<"got unresolved config">> ELSE <<>>

\* What a raw step inserts and the errors it adds.
RawItems(rawStep) ==
    rawStep.InputImageTagStepConfiguration
    \o (IF rawStep.TestStepConfiguration # <<>>
        THEN TestItems(rawStep.TestStepConfiguration[1])
        ELSE <<>>)

RawErrs(rawStep) ==
    IF rawStep.TestStepConfiguration # <<>>
    THEN TestErrs(rawStep.TestStepConfiguration[1])
    ELSE <<>>

\* The lists of a list, one after the other.
RECURSIVE Flatten(_)
Flatten(lists) ==
    IF lists = <<>> THEN <<>>
    ELSE Head(lists) \o Flatten(Tail(lists))

\* utilerrors.NewAggregate: nil for no error.
NewAggregate(errs) == IF errs = <<>> THEN <<>> ELSE <<errs>>

\* The function, with the orders in which the two maps of base images are
\* read; inserted lists the arguments of the calls of insert in order.
TestInputImageStreamTagsFromResolvedConfig(cfg, env, baseOrder, rpmOrder) ==
    LET inserted == baseOrder \o rpmOrder \o BuildRootItems(cfg, env)
                    \o Flatten([i \in DOMAIN cfg.Tests |-> TestItems(cfg.Tests[i])])
                    \o Flatten([i \in DOMAIN cfg.RawSteps |-> RawItems(cfg.RawSteps[i])])
        errs == Flatten([i \in DOMAIN cfg.Tests |-> TestErrs(cfg.Tests[i])])
                \o Flatten([i \in DOMAIN cfg.RawSteps |-> RawErrs(cfg.RawSteps[i])])
    IN  [fn |-> "TestInputImageStreamTagsFromResolvedConfig",
         result |-> InsertAll(inserted, <<>>),
         err |-> NewAggregate(errs),
         inserted |-> inserted]

\* Tags: two with one key and different names, and two plain ones.
TagSlashNs == [namespace |-> "a/b", name |-> "c", tag |-> "t"]
TagSlashName == [namespace |-> "a", name |-> "b/c", tag |-> "t"]
TagBuilder == [namespace |-> "ocp", name |-> "builder", tag |-> "latest"]
TagBuildCache == [namespace |-> "build-cache", name |-> "org-repo", tag |-> "branch"]

\* The orders in which the elements of a set can be read.
OrdersOf(S) ==
    {o \in [1..Cardinality(S) -> S] : \A i, j \in DOMAIN o : o[i] = o[j] => i = j}

StepsLiterals ==
    { [steps |-> <<<<TagSlashNs>>, <<>>>>, observers |-> <<<<TagSlashName>>>>] }

TestSteps ==
    [MultiStageTestConfiguration : BOOLEAN,
     MultiStageTestConfigurationLiteral : {<<>>} \cup {<<l>> : l \in StepsLiterals}]

RawSteps ==
    { [InputImageTagStepConfiguration |-> <<TagSlashName>>, TestStepConfiguration |-> <<>>],
      [InputImageTagStepConfiguration |-> <<>>,
       TestStepConfiguration |-> <<[MultiStageTestConfiguration |-> TRUE,
                                    MultiStageTestConfigurationLiteral |-> <<>>]>>],
      [InputImageTagStepConfiguration |-> <<TagBuilder>>,
       TestStepConfiguration |->
          <<[MultiStageTestConfiguration |-> FALSE,
             MultiStageTestConfigurationLiteral |-> <<CHOOSE l \in StepsLiterals : TRUE>>]>>] }

BuildRoots ==
    {<<>>} \cup
    {<<r>> : r \in [ImageStreamTagReference : {<<>>, <<TagBuilder>>},
                    UseBuildCache : BOOLEAN,
                    FromRepository : BOOLEAN]}

Configs ==
    [BaseImages : SUBSET {TagSlashNs, TagSlashName},
     BaseRPMImages : SUBSET {TagBuilder},
     BuildRootImage : BuildRoots,
     Tests : SeqsUpTo(TestSteps, MaxTests),
     RawSteps : SeqsUpTo(RawSteps, 1)]

RepoFiles ==
    { [kind |-> "getError", buildRootImage |-> ZeroTag],
      [kind |-> "noData", buildRootImage |-> ZeroTag],
      [kind |-> "badYaml", buildRootImage |-> ZeroTag],
      [kind |-> "ok", buildRootImage |-> TagSlashNs],
      [kind |-> "ok", buildRootImage |-> [namespace |-> "", name |-> "c", tag |-> "t"]] }

Environments ==
    [repoFileGetter : BOOLEAN, file : RepoFiles, buildCache : {TagBuildCache}]

InitImageTags ==
    /\ EvalIdle
    /\ caller = "TestInputImageStreamTagsFromResolvedConfig"
    /\ \E cfg \in Configs, env \in Environments :
         /\ env.repoFileGetter \/ env.file.kind = "noData"
         /\ args = [fn |-> "TestInputImageStreamTagsFromResolvedConfig",
                    cfg |-> cfg, env |-> env]

ApplyImageTags ==
    /\ args.fn = "TestInputImageStreamTagsFromResolvedConfig"
    /\ ret.fn = "none"
    /\ \E baseOrder \in OrdersOf(args.cfg.BaseImages),
          rpmOrder \in OrdersOf(args.cfg.BaseRPMImages) :
         ret' = TestInputImageStreamTagsFromResolvedConfig(args.cfg, args.env,
                                                           baseOrder, rpmOrder)
    /\ UNCHANGED evalFrame

NextImageTags == ApplyImageTags

SpecImageTags == InitImageTags /\ [][NextImageTags]_vars

\* The tests of the configuration, those of the raw steps included.
AllTestSteps ==
    Range(args.cfg.Tests)
        \cup {r.TestStepConfiguration[1] :
                 r \in {x \in Range(args.cfg.RawSteps) : x.TestStepConfiguration # <<>>}}

\* The tags the configuration names as input.
CollectedTags ==
    LET cfg == args.cfg
        roots == Range(cfg.BuildRootImage)
        literals == UNION {Range(t.MultiStageTestConfigurationLiteral) : t \in AllTestSteps}
    IN  cfg.BaseImages \cup cfg.BaseRPMImages
        \cup UNION {Range(r.ImageStreamTagReference) : r \in roots}
        \cup {args.env.buildCache : r \in {x \in roots : x.UseBuildCache}}
        \cup UNION {UNION {Range(l.steps[i]) : i \in DOMAIN l.steps} : l \in literals}
        \cup UNION {UNION {Range(l.observers[i]) : i \in DOMAIN l.observers} : l \in literals}
        \cup UNION {Range(r.InputImageTagStepConfiguration) : r \in Range(cfg.RawSteps)}

\* The in-repo config file was asked for and could not be read.
InRepoReadFailed ==
    /\ args.cfg.BuildRootImage # <<>>
    /\ args.cfg.BuildRootImage[1].FromRepository
    /\ args.env.repoFileGetter
    /\ args.env.file.kind \in {"getError", "badYaml"}

\* C37: the error is non-nil exactly when a test, of the configuration or
\* of a raw step, has its multi-stage reference set and its literal unset,
\* whether or not the in-repo config file could be read; the map has a key
\* for every tag of the base images, the build root, the resolved steps and
\* the raw steps, with or without an error; and the value of a key is that
\* of the first tag inserted under it.
C37_ErrorsAndTags ==
    ret.fn = "TestInputImageStreamTagsFromResolvedConfig" =>
    /\ ret.err # <<>>
         <=> \E t \in AllTestSteps :
                /\ t.MultiStageTestConfiguration
                /\ t.MultiStageTestConfigurationLiteral = <<>>
    /\ \A item \in CollectedTags :
         imageStreamTagReferenceToString(item) \in DOMAIN ret.result
    /\ \A k \in DOMAIN ret.result :
         \E i \in DOMAIN ret.inserted :
            /\ imageStreamTagReferenceToString(ret.inserted[i]) = k
            /\ \A j \in 1..(i - 1) : imageStreamTagReferenceToString(ret.inserted[j]) # k
            /\ ret.result[k] = NamespacedNameOf(ret.inserted[i])
    /\ InRepoReadFailed =>
         \A i \in DOMAIN ret.inserted : ret.inserted[i] \in CollectedTags

C37_Witness ==
    /\ ret.fn = "TestInputImageStreamTagsFromResolvedConfig"
    /\ InRepoReadFailed
    /\ ret.err = <<>>
    /\ args.cfg.BaseImages = {TagSlashNs, TagSlashName}
    /\ ret.inserted[1] = TagSlashName
    /\ ret.result["a/b/c:t"] = [namespace |-> "a", name |-> "b/c:t"]
    /\ Cardinality(DOMAIN ret.result) = 2

====
